---------------------------- MODULE Spec2Model ----------------------------
(***************************************************************************)
(* A model of epub2txt.py (SPACESODA/epub2txt): the conversion of one EPUB *)
(* archive to text by epub_to_text, and the pure functions it is built     *)
(* from (parse_opf, parse_toc_entries, select_toc_chapter_anchors,         *)
(* insert_anchor_markers, get_clean_text, normalize_extracted_text).       *)
(*                                                                         *)
(* A string is a sequence of one-character strings.                        *)
(***************************************************************************)
EXTENDS Integers, Sequences, FiniteSets, TLC

VARIABLES
    pc,               \* where the program stands
    soup,             \* the parsed document handed to get_clean_text
    segments,         \* get_clean_text: the list `parts` of (text, is_pre)
    text,             \* the string get_clean_text returned
    archive,          \* the file at epub_path (the input)
    ordered_files,    \* epub_to_text: the reading order
    toc_path,         \* epub_to_text: the navigation target, <<>> for None
    chapter_anchors,  \* epub_to_text: path -> list of fragments
    file_idx,         \* the index in ordered_files of the next file_path
    written,          \* the strings written to txt_file, in order
    out_state,        \* the output file: "absent", "open" or "closed"
    zip_open,         \* whether zip_ref is open
    wrote_content,    \* epub_to_text: wrote_content
    last_was_separator, \* epub_to_text: last_was_separator
    log,              \* the diagnostics printed, in order
    outcome           \* "running", "ok" or the exception raised

textVars == <<soup, segments, text>>
runVars == <<archive, ordered_files, toc_path, chapter_anchors, file_idx,
             written, out_state, zip_open, wrote_content, last_was_separator,
             log, outcome>>
vars == <<pc, soup, segments, text, archive, ordered_files, toc_path,
          chapter_anchors, file_idx, written, out_state, zip_open,
          wrote_content, last_was_separator, log, outcome>>

(***************************************************************************)
(* Bounds of the model                                                     *)
(***************************************************************************)
\* The characters of all segments handed to normalize_extracted_text.
MaxChars == 5
\* The children of a document's body.
MaxBody == 3
\* The itemrefs of a spine.
MaxSpine == 3
\* The items of a manifest (SpecOpf).
MaxItems == 3

(***************************************************************************)
(* Characters and elementary string functions                              *)
(***************************************************************************)
NL == "\n"
CR == "\r"
SP == " "
TAB == "\t"

\* The class [ \t\f\v] of the regular expressions of flush_normal.
FF == "\f"
VT == "\\v"
HSpace == {SP, TAB, FF, VT}

\* The class \s of the regular expression of walk, and of str.strip().
WSpace == HSpace \cup {NL, CR}

\* "".join(list) of a list of strings.
RECURSIVE Join(_)
Join(list) ==
    IF list = <<>> THEN <<>> ELSE Head(list) \o Join(Tail(list))

\* The number of leading characters of s that lie in the class cls.
RECURSIVE RunLen(_, _)
RunLen(s, cls) ==
    IF s = <<>> \/ Head(s) \notin cls THEN 0 ELSE 1 + RunLen(Tail(s), cls)

\* s without its first n characters.
Drop(s, n) == SubSeq(s, n + 1, Len(s))

\* [c] * n
Repeat(c, n) == [i \in 1..n |-> c]

\* text.replace('\r\n', '\n')
RECURSIVE ReplaceCRLF(_)
ReplaceCRLF(s) ==
    IF s = <<>> THEN <<>>
    ELSE IF Len(s) >= 2 /\ s[1] = CR /\ s[2] = NL
         THEN <<NL>> \o ReplaceCRLF(Drop(s, 2))
         ELSE <<Head(s)>> \o ReplaceCRLF(Tail(s))

\* text.replace('\r', '\n')
ReplaceCR(s) == [i \in 1..Len(s) |-> IF s[i] = CR THEN NL ELSE s[i]]

\* text.replace('\r\n', '\n').replace('\r', '\n')
NormalizeLineEndings(s) == ReplaceCR(ReplaceCRLF(s))

\* re.sub(r"[ \t\f\v]+", " ", text): leftmost, longest, non-overlapping.
RECURSIVE SubHSpace(_)
SubHSpace(s) ==
    IF s = <<>> THEN <<>>
    ELSE IF Head(s) \in HSpace
         THEN <<SP>> \o SubHSpace(Drop(s, RunLen(s, HSpace)))
         ELSE <<Head(s)>> \o SubHSpace(Tail(s))

\* re.sub(r" *\n *", "\n", text): at each position the greedy run of spaces
\* must be followed by a newline, else the character is copied.
RECURSIVE SubSpaceNewline(_)
SubSpaceNewline(s) ==
    IF s = <<>> THEN <<>>
    ELSE LET k == RunLen(s, {SP})
             rest == Drop(s, k)
         IN  IF rest # <<>> /\ Head(rest) = NL
             THEN <<NL>> \o
                  SubSpaceNewline(Drop(rest, 1 + RunLen(Tail(rest), {SP})))
             ELSE <<Head(s)>> \o SubSpaceNewline(Tail(s))

\* flush_normal's last substitution as a bug would have it: runs of four or
\* more newlines only.
RECURSIVE SubNewlines4(_)
SubNewlines4(s) ==
    IF s = <<>> THEN <<>>
    ELSE LET k == RunLen(s, {NL})
         IN  IF k >= 4
             THEN <<NL, NL>> \o SubNewlines4(Drop(s, k))
             ELSE <<Head(s)>> \o SubNewlines4(Tail(s))

\* re.sub(r"\n{3,}", "\n\n", text)
RECURSIVE SubNewlines(_)
SubNewlines(s) ==
    IF s = <<>> THEN <<>>
    ELSE LET k == RunLen(s, {NL})
         IN  IF k >= 3
             THEN <<NL, NL>> \o SubNewlines(Drop(s, k))
             ELSE <<Head(s)>> \o SubNewlines(Tail(s))

\* re.sub(r"^\n+", "", combined)
StripLeadingNewlines(s) == Drop(s, RunLen(s, {NL}))

\* The number of trailing newlines of s.
RECURSIVE TrailLen(_)
TrailLen(s) ==
    IF s = <<>> \/ s[Len(s)] # NL THEN 0
    ELSE 1 + TrailLen(SubSeq(s, 1, Len(s) - 1))

\* re.sub(r"\n+$", "", combined)
StripTrailingNewlines(s) == SubSeq(s, 1, Len(s) - TrailLen(s))

(***************************************************************************)
(* normalize_extracted_text                                                *)
(***************************************************************************)
\* flush_normal applied to the joined normal_buffer (non-empty).
FlushNormal(buffer) ==
    SubNewlines(SubSpaceNewline(SubHSpace(NormalizeLineEndings(buffer))))

\* The list `output` as a bug would have it: is_pre is not looked at, every
\* segment goes to normal_buffer.
OutputListNoPre(segs, normal_buffer) ==
    LET all == normal_buffer \o Join([i \in 1..Len(segs) |-> segs[i][1]])
    IN  IF all = <<>> THEN <<>> ELSE << <<FlushNormal(all), FALSE>> >>

\* The list `output` after the loop over segments and the last flush_normal:
\* each piece is <<string, is_pre>>; the flag records which branch appended
\* it.  normal_buffer is the joined text of the normal segments not yet
\* flushed; flush_normal appends nothing when it is empty.
RECURSIVE OutputList(_, _)
OutputList(segs, normal_buffer) ==
    LET flushed == IF normal_buffer = <<>> THEN <<>>
                   ELSE << <<FlushNormal(normal_buffer), FALSE>> >>
    IN  IF segs = <<>> THEN flushed
        ELSE IF Head(segs)[2]
             THEN flushed
                  \o << <<NormalizeLineEndings(Head(segs)[1]), TRUE>> >>
                  \o OutputList(Tail(segs), <<>>)
             ELSE OutputList(Tail(segs), normal_buffer \o Head(segs)[1])

Combined(segs) ==
    LET out == OutputList(segs, <<>>)
    IN  Join([i \in 1..Len(out) |-> out[i][1]])

normalize_extracted_text(segs) ==
    StripTrailingNewlines(StripLeadingNewlines(Combined(segs)))

(***************************************************************************)
(* The content tree                                                        *)
(*                                                                         *)
(* A node is a record: name (the tag name, "#text" for a NavigableString), *)
(* oid (the identity of the object, what Python's id() tells apart), the   *)
(* attributes id, nm (name), ref (href, or src in an NCX), epub_type and   *)
(* role ("" or <<>> when absent), text (the string of a "#text" node) and  *)
(* children.                                                               *)
(***************************************************************************)
BLOCK_TAGS ==
    {"p", "div", "h1", "h2", "h3", "h4", "h5", "h6",
     "li", "ul", "ol", "dl", "dt", "dd",
     "table", "thead", "tbody", "tfoot", "tr", "td", "th",
     "article", "section", "main", "header", "footer", "nav", "aside",
     "blockquote", "pre", "hr"}

PRE_TAGS == {"pre", "code", "samp", "kbd", "tt"}

SKIP_TAGS == {"script", "style", "title", "meta", "noscript"}

HEADING_NAMES == {"h1", "h2", "h3", "h4", "h5", "h6"}

HEADING_TAGS ==
    [n \in HEADING_NAMES |->
        CASE n = "h1" -> 1 [] n = "h2" -> 2 [] n = "h3" -> 3
          [] n = "h4" -> 4 [] n = "h5" -> 5 [] n = "h6" -> 6]

MAX_HEADING_LEVEL == 6

ANCHOR_MARKER_TAG == "epub2txt-sep"

\* "\n\n---\n\n": chapter_separator of epub_to_text and the text add_separator
\* appends.
CHAPTER_SEPARATOR == <<NL, NL, "-", "-", "-", NL, NL>>

Min(a, b) == IF a < b THEN a ELSE b
Max(a, b) == IF a > b THEN a ELSE b

\* str.strip()
StripWS(s) ==
    LET lead == RunLen(s, WSpace)
        rest == Drop(s, lead)
        RECURSIVE Trail(_)
        Trail(t) == IF t = <<>> \/ t[Len(t)] \notin WSpace THEN 0
                    ELSE 1 + Trail(SubSeq(t, 1, Len(t) - 1))
    IN  SubSeq(rest, 1, Len(rest) - Trail(rest))

\* re.sub(r"\s+", " ", text)
RECURSIVE SubWSpace(_)
SubWSpace(s) ==
    IF s = <<>> THEN <<>>
    ELSE IF Head(s) \in WSpace
         THEN <<SP>> \o SubWSpace(Drop(s, RunLen(s, WSpace)))
         ELSE <<Head(s)>> \o SubWSpace(Tail(s))

\* Tag.get_text's list of strings with strip=True: the strings of the
\* subtree in document order, each stripped, the empty ones left out.
RECURSIVE AllStrings(_)
AllStrings(node) ==
    IF node.name = "#text"
    THEN IF StripWS(node.text) = <<>> THEN <<>> ELSE <<StripWS(node.text)>>
    ELSE LET RECURSIVE Of(_)
             Of(kids) == IF kids = <<>> THEN <<>>
                         ELSE AllStrings(Head(kids)) \o Of(Tail(kids))
         IN  Of(node.children)

\* separator.join(strings)
RECURSIVE JoinWith(_, _)
JoinWith(strings, sep) ==
    IF strings = <<>> THEN <<>>
    ELSE IF Len(strings) = 1 THEN strings[1]
    ELSE strings[1] \o sep \o JoinWith(Tail(strings), sep)

\* child.get_text(" ", strip=True)
GetText(node) == JoinWith(AllStrings(node), <<SP>>)

(***************************************************************************)
(* get_clean_text: the walk and its closures add_text and add_separator.   *)
(* st is the closure state: parts, has_content, last_sep.                  *)
(***************************************************************************)
add_text(st, t, is_pre, is_content) ==
    IF t = <<>> THEN st
    ELSE [parts |-> Append(st.parts, <<t, is_pre>>),
          has_content |-> st.has_content \/ is_content,
          last_sep |-> IF is_content THEN FALSE ELSE st.last_sep]

\* add_separator as a bug would have it: the state is not looked at.
add_separator_always(st) ==
    [st EXCEPT !.parts = Append(@, <<CHAPTER_SEPARATOR, FALSE>>), !.last_sep = TRUE]

add_separator(st) ==
    IF st.has_content /\ ~st.last_sep
    THEN [st EXCEPT !.parts = Append(@, <<CHAPTER_SEPARATOR, FALSE>>),
                    !.last_sep = TRUE]
    ELSE st

\* "#" * level + " " + heading_text
HeadingLine(child) ==
    Repeat("#", Min(HEADING_TAGS[child.name], MAX_HEADING_LEVEL))
        \o <<SP>> \o GetText(child)

\* The bullet prefix as the comment of line 553 has it: two spaces a level.
BulletPrefixTwoSpaces(list_depth) ==
    Repeat(SP, 2 * Max(0, list_depth - 1)) \o <<"-", SP>>

\* The bullet prefix of a list item.
BulletPrefix(list_depth) ==
    Repeat(SP, 4 * Max(0, list_depth - 1)) \o <<"-", SP>>

RECURSIVE walk(_, _, _, _)
RECURSIVE walk_child(_, _, _, _)
\* The guard of the CASE is true of every state: with it TLC evaluates the
\* state after one child before it walks the next, as the loop does.
walk(children, in_pre, list_depth, st) ==
    IF children = <<>> THEN st
    ELSE LET after == walk_child(Head(children), in_pre, list_depth, st)
         IN  CASE Len(after.parts) >= 0 ->
                 walk(Tail(children), in_pre, list_depth, after)

walk_child(child, in_pre, list_depth, st) ==
    LET name == child.name
        nl(s) == add_text(s, <<NL>>, FALSE, FALSE)
        unless_pre(s, t, pre) == IF in_pre THEN s ELSE add_text(s, t, pre, FALSE)
        inside(s, next_pre, depth) == walk(child.children, next_pre, depth, s)
    IN  IF name = "#text"
        THEN IF in_pre
             THEN add_text(st, child.text, TRUE, StripWS(child.text) # <<>>)
             ELSE add_text(st, SubWSpace(child.text), FALSE,
                           StripWS(SubWSpace(child.text)) # <<>>)
        ELSE IF name \in SKIP_TAGS THEN st
        ELSE IF name = ANCHOR_MARKER_TAG THEN add_separator(st)
        ELSE IF name = "br" THEN add_text(st, <<NL>>, in_pre, FALSE)
        ELSE IF name \in {"b", "strong"}
        THEN unless_pre(inside(unless_pre(st, <<"*", "*">>, FALSE),
                               in_pre, list_depth),
                        <<"*", "*">>, FALSE)
        ELSE IF name \in {"ul", "ol"}
        THEN unless_pre(inside(unless_pre(st, <<NL>>, FALSE),
                               in_pre, list_depth + 1),
                        <<NL>>, FALSE)
        ELSE IF name = "li"
        THEN unless_pre(
                 inside(unless_pre(unless_pre(st, <<NL>>, FALSE),
                                   BulletPrefix(list_depth), TRUE),
                        in_pre, list_depth),
                 <<NL>>, FALSE)
        ELSE IF name \in HEADING_NAMES /\ ~in_pre /\ GetText(child) # <<>>
        THEN nl(add_text(nl(st), HeadingLine(child), FALSE, TRUE))
        ELSE LET is_block == name \in BLOCK_TAGS
                 next_pre == in_pre \/ name \in PRE_TAGS
             IN  IF is_block /\ ~in_pre
                 THEN nl(inside(nl(st), next_pre, list_depth))
                 ELSE inside(st, next_pre, list_depth)

\* No node: what find and find_parent return as None.
NoNode == [name |-> "#none", oid |-> 0, id |-> "", nm |-> "", ref |-> <<>>,
           epub_type |-> "", role |-> "", text |-> <<>>, children |-> <<>>]

\* Tag.find: the first node below the given children, in document order,
\* whose field key ("name", "id" or "nm") is val; NoNode when there is none.
RECURSIVE FindIn(_, _, _)
FindIn(kids, key, val) ==
    IF kids = <<>> THEN NoNode
    ELSE IF Head(kids)[key] = val THEN Head(kids)
    ELSE LET below == FindIn(Head(kids).children, key, val)
         IN  IF below # NoNode THEN below ELSE FindIn(Tail(kids), key, val)

\* soup.body
Body(sp) == FindIn(sp.children, "name", "body")

\* The list `parts` at the end of get_clean_text's walk.
Parts(sp) ==
    LET root == IF Body(sp) # NoNode THEN Body(sp) ELSE sp
    IN  walk(root.children, FALSE, 0,
             [parts |-> <<>>, has_content |-> FALSE, last_sep |-> FALSE]).parts

get_clean_text(sp) == normalize_extracted_text(Parts(sp))

(***************************************************************************)
(* Paths                                                                   *)
(*                                                                         *)
(* A path is the sequence of its components ("OEBPS/a.xhtml" is            *)
(* <<"OEBPS", "a.xhtml">>, "" is <<>>); an href is a sequence of tokens:   *)
(* components, then possibly "#" and the fragment.  A component may be     *)
(* percent-encoded.                                                        *)
(***************************************************************************)
\* urllib.parse.unquote on one token.
Unquote(tok) ==
    CASE tok = "b%2Exhtml" -> "b.xhtml"
      [] tok = "%78" -> "x"
      [] OTHER -> tok

UnquoteAll(toks) == [i \in 1..Len(toks) |-> Unquote(toks[i])]

\* href.split('#', 1)[0] and the rest after the first "#".
RECURSIVE BeforeHash(_)
BeforeHash(toks) ==
    IF toks = <<>> \/ Head(toks) = "#" THEN <<>>
    ELSE <<Head(toks)>> \o BeforeHash(Tail(toks))

AfterHash(toks) == Drop(toks, Len(BeforeHash(toks)) + 1)

\* posixpath.normpath of a relative path: "." components dropped, ".."
\* taking back the component before it.  An empty result is ".".
RECURSIVE NormStack(_, _)
NormStack(segs, stack) ==
    IF segs = <<>> THEN stack
    ELSE IF Head(segs) = "." THEN NormStack(Tail(segs), stack)
    ELSE IF Head(segs) = ".." /\ stack # <<>> /\ stack[Len(stack)] # ".."
         THEN NormStack(Tail(segs), SubSeq(stack, 1, Len(stack) - 1))
    ELSE NormStack(Tail(segs), Append(stack, Head(segs)))

normpath(segs) ==
    IF NormStack(segs, <<>>) = <<>> THEN <<".">> ELSE NormStack(segs, <<>>)

\* posixpath.dirname
dirname(path) == IF path = <<>> THEN <<>> ELSE SubSeq(path, 1, Len(path) - 1)

resolve_zip_path(base_dir, href) ==
    IF href = <<>> THEN <<>>
    ELSE LET h == BeforeHash(UnquoteAll(href))
         IN  IF h = <<>> THEN <<>> ELSE normpath(base_dir \o h)

\* The fragment is one token in every href of the model.
split_toc_href(base_dir, href) ==
    IF href = <<>> THEN [path |-> <<>>, fragment |-> ""]
    ELSE [path |-> resolve_zip_path(base_dir, BeforeHash(href)),
          fragment |-> IF AfterHash(href) = <<>> THEN ""
                       ELSE Unquote(AfterHash(href)[1])]

\* name.lower() of the file names of the model.
Lower(name) ==
    CASE name = "B.XHTML" -> "b.xhtml"
      [] name = "C.HTM" -> "c.htm"
      [] OTHER -> name

\* str.endswith(('.html', '.htm', '.xhtml')) of the lowered names of the model.
HtmlSuffixed == {"a.xhtml", "b.xhtml", "c.htm", "nav.xhtml", "nav2.xhtml"}

\* path.lower().endswith(('.html', '.htm', '.xhtml'))
IsHtmlPath(path) == path # <<>> /\ Lower(path[Len(path)]) \in HtmlSuffixed

\* toc_path.lower().endswith('.ncx')
IsNcxPath(path) == path # <<>> /\ Lower(path[Len(path)]) \in {"toc.ncx", "toc2.ncx"}

\* name.endswith('.opf')
IsOpfPath(path) == path # <<>> /\ path[Len(path)] \in {"content.opf"}

(***************************************************************************)
(* parse_opf                                                               *)
(*                                                                         *)
(* The package document is a record: parses (ET.fromstring succeeds),      *)
(* manifest (the item elements in document order, each with id, href,      *)
(* properties and media_type; "" or <<>> when the attribute is absent),    *)
(* has_spine, toc (the spine's toc attribute) and itemrefs (the idref of   *)
(* each itemref in document order).                                        *)
(***************************************************************************)
NCX_MEDIA_TYPE == "application/x-dtbncx+xml"

\* The manifest loop: manifest_items (id -> href), nav_href and ncx_href,
\* <<>> standing for None.
RECURSIVE ManifestLoop(_, _)
ManifestLoop(items, acc) ==
    IF items = <<>> THEN acc
    ELSE LET item == Head(items)
         IN  IF item.id = "" \/ item.href = <<>>
             THEN ManifestLoop(Tail(items), acc)
             ELSE ManifestLoop(Tail(items),
                    [manifest_items |-> (item.id :> item.href) @@ acc.manifest_items,
                     nav_href |-> IF "nav" \in item.properties THEN item.href
                                  ELSE acc.nav_href,
                     ncx_href |-> IF item.media_type = NCX_MEDIA_TYPE THEN item.href
                                  ELSE acc.ncx_href])

Manifest(opf) ==
    ManifestLoop(opf.manifest,
                 [manifest_items |-> <<>>, nav_href |-> <<>>, ncx_href |-> <<>>])

\* ncx_href after the spine's toc attribute was looked at, as a bug would
\* have it: the attribute is not read.
NcxHrefIgnoringToc(opf) == Manifest(opf).ncx_href

\* ncx_href after the spine's toc attribute was looked at.
NcxHref(opf) ==
    LET m == Manifest(opf)
    IN  IF opf.has_spine /\ opf.toc # "" /\ opf.toc \in DOMAIN m.manifest_items
        THEN m.manifest_items[opf.toc]
        ELSE m.ncx_href

\* spine_hrefs
RECURSIVE SpineHrefs(_, _)
SpineHrefs(itemrefs, manifest_items) ==
    IF itemrefs = <<>> THEN <<>>
    ELSE (IF Head(itemrefs) \in DOMAIN manifest_items
          THEN <<manifest_items[Head(itemrefs)]>> ELSE <<>>)
         \o SpineHrefs(Tail(itemrefs), manifest_items)

\* full_paths as a bug would have it: a path met before is not added again.
RECURSIVE FullPathsDedup(_, _)
FullPathsDedup(hrefs, opf_dir) ==
    IF hrefs = <<>> THEN <<>>
    ELSE LET before == FullPathsDedup(SubSeq(hrefs, 1, Len(hrefs) - 1), opf_dir)
             path == resolve_zip_path(opf_dir, hrefs[Len(hrefs)])
         IN  IF path = <<>> \/ \E i \in 1..Len(before) : before[i] = path
             THEN before ELSE Append(before, path)

\* full_paths
RECURSIVE FullPaths(_, _)
FullPaths(hrefs, opf_dir) ==
    IF hrefs = <<>> THEN <<>>
    ELSE LET path == resolve_zip_path(opf_dir, Head(hrefs))
         IN  (IF path # <<>> THEN <<path>> ELSE <<>>)
             \o FullPaths(Tail(hrefs), opf_dir)

\* toc_href = nav_href or ncx_href
TocHref(opf) ==
    IF Manifest(opf).nav_href # <<>> THEN Manifest(opf).nav_href ELSE NcxHref(opf)

\* The pair parse_opf returns; toc_path <<>> stands for None and for "".
parse_opf(opf, opf_file) ==
    LET opf_dir == dirname(opf_file)
        spine_hrefs == IF opf.has_spine
                       THEN SpineHrefs(opf.itemrefs, Manifest(opf).manifest_items)
                       ELSE <<>>
    IN  [full_paths |-> FullPaths(spine_hrefs, opf_dir),
         toc_path |-> IF TocHref(opf) # <<>>
                      THEN resolve_zip_path(opf_dir, TocHref(opf)) ELSE <<>>]

(***************************************************************************)
(* The table of contents                                                   *)
(***************************************************************************)
\* Tag.find(names, ...): the first node below kids, in document order, with
\* one of the names and, when key is not "", a non-empty value val of the
\* attribute key (any non-empty value when val is "*").
RECURSIVE FindTag(_, _, _, _)
FindTag(kids, names, key, val) ==
    IF kids = <<>> THEN NoNode
    ELSE LET n == Head(kids)
             hit == /\ n.name \in names
                    /\ \/ key = ""
                       \/ val = "*" /\ n[key] # <<>>
                       \/ val # "*" /\ n[key] = val
             below == FindTag(n.children, names, key, val)
         IN  IF hit THEN n
             ELSE IF below # NoNode THEN below
             ELSE FindTag(Tail(kids), names, key, val)

\* Tag.find_all(names, recursive=False) and Tag.find(names, recursive=False)
ChildrenNamed(node, names) ==
    SelectSeq(node.children, LAMBDA n : n.name \in names)

\* walk_list of parse_nav_toc_entries: the entries of the items of list_tag,
\* in document order.
RECURSIVE walk_list(_, _, _)
walk_list(list_tag, depth, toc_dir) ==
    LET RECURSIVE OfItems(_)
        OfItems(lis) ==
            IF lis = <<>> THEN <<>>
            ELSE LET li == Head(lis)
                     link == FindTag(li.children, {"a"}, "ref", "*")
                     target == split_toc_href(toc_dir, link.ref)
                     own == IF link # NoNode /\ target.path # <<>>
                            THEN << [path |-> target.path,
                                     fragment |-> target.fragment,
                                     title |-> SubWSpace(GetText(link)),
                                     depth |-> depth] >>
                            ELSE <<>>
                     child_lists == ChildrenNamed(li, {"ol", "ul"})
                     nested == IF child_lists # <<>>
                               THEN walk_list(child_lists[1], depth + 1, toc_dir)
                               ELSE <<>>
                 IN  own \o nested \o OfItems(Tail(lis))
    IN  OfItems(ChildrenNamed(list_tag, {"li"}))

\* nav_soup is BeautifulSoup(nav_content, 'html.parser').
parse_nav_toc_entries(nav_soup, toc_dir) ==
    LET by_type == FindTag(nav_soup.children, {"nav"}, "epub_type", "toc")
        by_role == FindTag(nav_soup.children, {"nav"}, "role", "doc-toc")
        any == FindTag(nav_soup.children, {"nav"}, "", "")
        nav == IF by_type # NoNode THEN by_type
               ELSE IF by_role # NoNode THEN by_role ELSE any
        list_root == FindTag(nav.children, {"ol", "ul"}, "", "")
    IN  IF nav = NoNode THEN <<>>
        ELSE IF list_root = NoNode THEN <<>>
        ELSE walk_list(list_root, 1, toc_dir)

\* child_by_local_name
child_by_local_name(elem, name) ==
    IF ChildrenNamed(elem, {name}) = <<>> THEN NoNode
    ELSE ChildrenNamed(elem, {name})[1]

\* Element.text of an ElementTree element: the text before its first child.
ElementText(elem) ==
    IF elem.children # <<>> /\ elem.children[1].name = "#text"
    THEN elem.children[1].text ELSE <<>>

\* walk_nav_point of parse_ncx_toc_entries
RECURSIVE walk_nav_point(_, _, _)
walk_nav_point(nav_point, depth, toc_dir) ==
    LET content == child_by_local_name(nav_point, "content")
        src == IF content # NoNode THEN content.ref ELSE <<>>
        nav_label == child_by_local_name(nav_point, "navLabel")
        text_el == child_by_local_name(nav_label, "text")
        title == IF nav_label # NoNode /\ text_el # NoNode
                 THEN StripWS(ElementText(text_el)) ELSE <<>>
        target == split_toc_href(toc_dir, src)
        own == IF target.path # <<>>
               THEN << [path |-> target.path, fragment |-> target.fragment,
                        title |-> title, depth |-> depth] >>
               ELSE <<>>
        RECURSIVE OfPoints(_)
        OfPoints(points) ==
            IF points = <<>> THEN <<>>
            ELSE walk_nav_point(Head(points), depth + 1, toc_dir)
                 \o OfPoints(Tail(points))
    IN  own \o OfPoints(ChildrenNamed(nav_point, {"navPoint"}))

\* What ET.fromstring makes of a file's bytes is in the file: xml_result is
\* "ok" (xml_root is the root element), "ParseError", or "ValueError" (the
\* exception ET.fromstring raises on an XML declaration that names a
\* multi-byte encoding; LookupError on an unknown one).
\* The result of parse_ncx_toc_entries: raised, or the entries.
parse_ncx_toc_entries(file, toc_dir) ==
    IF file.xml_result = "ParseError" THEN [raised |-> FALSE, entries |-> <<>>]
    ELSE IF file.xml_result # "ok" THEN [raised |-> TRUE, entries |-> <<>>]
    ELSE LET nav_map == FindTag(<<file.xml_root>>, {"navMap"}, "", "")
             RECURSIVE OfPoints(_)
             OfPoints(points) ==
                 IF points = <<>> THEN <<>>
                 ELSE walk_nav_point(Head(points), 1, toc_dir)
                      \o OfPoints(Tail(points))
         IN  [raised |-> FALSE,
              entries |-> IF nav_map = NoNode THEN <<>>
                          ELSE OfPoints(ChildrenNamed(nav_map, {"navPoint"}))]

\* files is the archive: a function from the paths of its entries to their
\* contents.  toc <<>> is None.
parse_toc_entries(files, toc) ==
    IF toc = <<>> THEN [raised |-> FALSE, entries |-> <<>>]
    ELSE IF toc \notin DOMAIN files THEN [raised |-> FALSE, entries |-> <<>>]
    ELSE IF IsNcxPath(toc) THEN parse_ncx_toc_entries(files[toc], dirname(toc))
    ELSE [raised |-> FALSE,
          entries |-> parse_nav_toc_entries(files[toc].soup, dirname(toc))]

\* select_toc_chapter_anchors as a bug would have it: the depth of an entry
\* is not looked at.
RECURSIVE select_anchors_of_any_depth(_)
select_anchors_of_any_depth(entries) ==
    IF entries = <<>> THEN <<>>
    ELSE LET anchors == select_anchors_of_any_depth(
                            SubSeq(entries, 1, Len(entries) - 1))
             entry == entries[Len(entries)]
             path == normpath(entry.path)
             anchor_list == IF path \in DOMAIN anchors THEN anchors[path] ELSE <<>>
         IN  IF ~IsHtmlPath(entry.path) \/ entry.fragment = "" THEN anchors
             ELSE IF \E i \in 1..Len(anchor_list) : anchor_list[i] = entry.fragment
                  THEN anchors
                  ELSE (path :> Append(anchor_list, entry.fragment)) @@ anchors

\* The dictionary select_toc_chapter_anchors returns: a function from paths
\* to lists of fragments.
RECURSIVE select_toc_chapter_anchors(_)
select_toc_chapter_anchors(entries) ==
    IF entries = <<>> THEN <<>>
    ELSE LET anchors == select_toc_chapter_anchors(
                            SubSeq(entries, 1, Len(entries) - 1))
             entry == entries[Len(entries)]
             path == normpath(entry.path)
             anchor_list == IF path \in DOMAIN anchors THEN anchors[path] ELSE <<>>
         IN  IF entry.depth # 1 THEN anchors
             ELSE IF ~IsHtmlPath(entry.path) THEN anchors
             ELSE IF entry.fragment = "" THEN anchors
             ELSE IF \E i \in 1..Len(anchor_list) : anchor_list[i] = entry.fragment
                  THEN (path :> anchor_list) @@ anchors
                  ELSE (path :> Append(anchor_list, entry.fragment)) @@ anchors

(***************************************************************************)
(* insert_anchor_markers                                                   *)
(***************************************************************************)
\* The ancestors of the node with this oid below kids, outermost first;
\* <<>> when it is a child of the top or absent.
RECURSIVE AncestorsOf(_, _)
AncestorsOf(kids, oid) ==
    IF kids = <<>> THEN <<>>
    ELSE LET n == Head(kids)
             RECURSIVE Has(_)
             Has(ks) == \E i \in 1..Len(ks) :
                            ks[i].oid = oid \/ Has(ks[i].children)
         IN  IF n.oid = oid THEN <<>>
             ELSE IF Has(n.children) THEN <<n>> \o AncestorsOf(n.children, oid)
             ELSE AncestorsOf(Tail(kids), oid)

\* target.find_parent(list(HEADING_TAGS.keys())): the nearest ancestor that
\* is a heading.
HeadingParent(sp, target) ==
    LET up == SelectSeq(AncestorsOf(sp.children, target.oid),
                        LAMBDA n : n.name \in HEADING_NAMES)
    IN  IF up = <<>> THEN NoNode ELSE up[Len(up)]

\* soup.new_tag(ANCHOR_MARKER_TAG), a new object, made for this target.
Marker(target) == [NoNode EXCEPT !.name = ANCHOR_MARKER_TAG, !.oid = 0 - target.oid]

\* target.insert_before(marker)
RECURSIVE InsertBefore(_, _)
InsertBefore(kids, target) ==
    IF kids = <<>> THEN <<>>
    ELSE IF Head(kids).oid = target.oid
         THEN <<Marker(target), Head(kids)>> \o Tail(kids)
    ELSE << [Head(kids) EXCEPT !.children = InsertBefore(@, target)] >>
         \o InsertBefore(Tail(kids), target)

\* The node an anchor stands for as a bug would have it: the node found,
\* inside a heading or not.
AnchorTargetAsFound(sp, anchor_id) ==
    LET by_id == FindIn(sp.children, "id", anchor_id)
    IN  IF by_id # NoNode THEN by_id ELSE FindIn(sp.children, "nm", anchor_id)

\* The node an anchor stands for: found by id, else by name, and the heading
\* around it if there is one.  NoNode when the fragment matches nothing.
AnchorTarget(sp, anchor_id) ==
    LET by_id == FindIn(sp.children, "id", anchor_id)
        found == IF by_id # NoNode THEN by_id
                 ELSE FindIn(sp.children, "nm", anchor_id)
    IN  IF found = NoNode THEN NoNode
        ELSE IF HeadingParent(sp, found) # NoNode THEN HeadingParent(sp, found)
        ELSE found

\* The soup after insert_anchor_markers(soup, anchor_ids); seen_targets is
\* the set of the oids of the targets met.
RECURSIVE InsertLoop(_, _, _)
InsertLoop(sp, anchor_ids, seen_targets) ==
    IF anchor_ids = <<>> THEN sp
    ELSE LET anchor_id == Head(anchor_ids)
             target == AnchorTarget(sp, anchor_id)
         IN  IF anchor_id = "" \/ target = NoNode \/ target.oid \in seen_targets
             THEN InsertLoop(sp, Tail(anchor_ids), seen_targets)
             ELSE InsertLoop([sp EXCEPT !.children = InsertBefore(@, target)],
                             Tail(anchor_ids), seen_targets \cup {target.oid})

insert_anchor_markers(sp, anchor_ids) == InsertLoop(sp, anchor_ids, {})

\* for element in soup([...]): element.decompose()
RECURSIVE Decompose(_)
Decompose(kids) ==
    IF kids = <<>> THEN <<>>
    ELSE IF Head(kids).name \in SKIP_TAGS THEN Decompose(Tail(kids))
    ELSE << [Head(kids) EXCEPT !.children = Decompose(@)] >> \o Decompose(Tail(kids))

(***************************************************************************)
(* epub_to_text                                                            *)
(*                                                                         *)
(* The archive is a record: exists (os.path.exists(epub_path)), is_zip     *)
(* (zipfile.ZipFile opens it), container (the full-path of the rootfile    *)
(* in META-INF/container.xml, <<>> when that file is missing or broken),   *)
(* names (namelist()), opf_at and opf (the package document and where it   *)
(* is) and files (the other entries: path -> content).  A content is a     *)
(* record: soup (what BeautifulSoup makes of it), fails (lines 400-413     *)
(* raise an exception on it), xml_result and xml_root (what ET.fromstring  *)
(* makes of it).                                                           *)
(***************************************************************************)
\* The state of a run that has not started.
NoArchive == [exists |-> FALSE]

NoRun ==
    /\ archive = NoArchive
    /\ ordered_files = <<>>
    /\ toc_path = <<>>
    /\ chapter_anchors = <<>>
    /\ file_idx = 1
    /\ written = <<>>
    /\ out_state = "absent"
    /\ zip_open = FALSE
    /\ wrote_content = FALSE
    /\ last_was_separator = FALSE
    /\ log = <<>>
    /\ outcome = "running"

\* The order of sorted() on the file names of the model: upper case letters
\* come before lower case ones.
NameRank(name) ==
    CASE name = "C.HTM" -> 1
      [] name = "a.xhtml" -> 2
      [] name = "b.xhtml" -> 3
      [] name = "nav.xhtml" -> 4
      [] OTHER -> 5

\* sorted(paths) of paths of one directory.
RECURSIVE Sorted(_)
Sorted(paths) ==
    IF paths = <<>> THEN <<>>
    ELSE LET least == CHOOSE i \in 1..Len(paths) :
                          \A j \in 1..Len(paths) :
                              NameRank(paths[i][Len(paths[i])])
                                  <= NameRank(paths[j][Len(paths[j])])
         IN  <<paths[least]>>
             \o Sorted(SubSeq(paths, 1, least - 1)
                       \o SubSeq(paths, least + 1, Len(paths)))

\* get_epub_rootfile: the rootfile of the container, else the first name
\* that ends in .opf; <<>> when it raises ValueError.
get_epub_rootfile(arch) ==
    IF arch.container # <<>> THEN arch.container
    ELSE LET opfs == SelectSeq(arch.names, IsOpfPath)
         IN  IF opfs = <<>> THEN <<>> ELSE opfs[1]

\* A block that closes the archive only when its end is reached, as a
\* close() after the loop would.
LeaveZipAtEndOnly(is_open, by_exception) == is_open /\ by_exception

\* Line 340: the with block of the archive is left, at its end or by an
\* exception; the result tells whether the archive is open afterwards.
LeaveZip(is_open, by_exception) == FALSE

\* Lines 327-332: the input must exist.
CheckExists ==
    /\ pc = "start"
    /\ IF archive.exists
       THEN pc' = "open_zip" /\ UNCHANGED outcome
       ELSE pc' = "raised" /\ outcome' = "FileNotFoundError"
    /\ UNCHANGED <<textVars, archive, ordered_files, toc_path, chapter_anchors,
                   file_idx, written, out_state, zip_open, wrote_content,
                   last_was_separator, log>>

\* Lines 339-340 and 439-444: zipfile.ZipFile(epub_path, 'r').
OpenZip ==
    /\ pc = "open_zip"
    /\ IF archive.is_zip
       THEN pc' = "structure" /\ zip_open' = TRUE /\ UNCHANGED outcome
       ELSE pc' = "raised" /\ outcome' = "ValueError: Invalid EPUB file"
            /\ UNCHANGED zip_open
    /\ UNCHANGED <<textVars, archive, ordered_files, toc_path, chapter_anchors,
                   file_idx, written, out_state, wrote_content,
                   last_was_separator, log>>

\* Lines 341-352: get_epub_rootfile and parse_opf; any exception of theirs
\* becomes the ValueError of line 348, which leaves the with block.
ParseStructure ==
    /\ pc = "structure"
    /\ LET opf_file == get_epub_rootfile(archive)
       IN  IF opf_file = <<>> \/ opf_file # archive.opf_at \/ ~archive.opf.parses
           THEN /\ pc' = "raised"
                /\ outcome' = "ValueError: Failed to parse EPUB structure"
                /\ zip_open' = LeaveZip(zip_open, TRUE)
                /\ UNCHANGED <<ordered_files, toc_path>>
           ELSE /\ pc' = "order"
                /\ ordered_files' = parse_opf(archive.opf, opf_file).full_paths
                /\ toc_path' = parse_opf(archive.opf, opf_file).toc_path
                /\ UNCHANGED <<outcome, zip_open>>
    /\ UNCHANGED <<textVars, archive, chapter_anchors, file_idx, written,
                   out_state, wrote_content, last_was_separator, log>>

\* Lines 354-369 as a bug would have them: the output is opened before the
\* order is looked at, and is left empty by the error.
ResolveOrderInOutput ==
    /\ pc = "order"
    /\ LET fallback == Sorted(SelectSeq(archive.names, IsHtmlPath))
           files == IF ordered_files = <<>> THEN fallback ELSE ordered_files
       IN  /\ ordered_files' = files
           /\ log' = IF ordered_files = <<>>
                     THEN Append(log, <<"Warning: No spine found">>) ELSE log
           /\ IF files = <<>>
              THEN /\ pc' = "raised"
                   /\ outcome' = "ValueError: No readable HTML/XHTML content"
                   /\ zip_open' = LeaveZip(zip_open, TRUE)
                   /\ out_state' = "closed"
              ELSE pc' = "toc" /\ UNCHANGED <<outcome, zip_open, out_state>>
    /\ UNCHANGED <<textVars, archive, toc_path, chapter_anchors, file_idx,
                   written, wrote_content, last_was_separator>>

\* Lines 354-369: the fallback to the HTML files of the archive, and the
\* error when there is nothing to read.
ResolveOrder ==
    /\ pc = "order"
    /\ LET fallback == Sorted(SelectSeq(archive.names, IsHtmlPath))
           files == IF ordered_files = <<>> THEN fallback ELSE ordered_files
       IN  /\ ordered_files' = files
           /\ log' = IF ordered_files = <<>>
                     THEN Append(log, <<"Warning: No spine found">>) ELSE log
           /\ IF files = <<>>
              THEN /\ pc' = "raised"
                   /\ outcome' = "ValueError: No readable HTML/XHTML content"
                   /\ zip_open' = LeaveZip(zip_open, TRUE)
              ELSE pc' = "toc" /\ UNCHANGED <<outcome, zip_open>>
    /\ UNCHANGED <<textVars, archive, toc_path, chapter_anchors, file_idx,
                   written, out_state, wrote_content, last_was_separator>>

\* Lines 371-372: an exception of parse_toc_entries is not caught in
\* epub_to_text; it leaves the with block.
ParseToc ==
    /\ pc = "toc"
    /\ LET toc == parse_toc_entries(archive.files, toc_path)
       IN  IF toc.raised
           THEN /\ pc' = "raised"
                /\ outcome' = "ValueError"
                /\ zip_open' = LeaveZip(zip_open, TRUE)
                /\ UNCHANGED chapter_anchors
           ELSE /\ pc' = "open_out"
                /\ chapter_anchors' = select_toc_chapter_anchors(toc.entries)
                /\ UNCHANGED <<outcome, zip_open>>
    /\ UNCHANGED <<textVars, archive, ordered_files, toc_path, file_idx,
                   written, out_state, wrote_content, last_was_separator, log>>

\* Lines 379-386: open(output_txt_path, 'w') makes the file empty.
OpenOutput ==
    /\ pc = "open_out"
    /\ out_state' = "open"
    /\ written' = <<>>
    /\ wrote_content' = FALSE
    /\ last_was_separator' = FALSE
    /\ file_idx' = 1
    /\ pc' = "loop"
    /\ UNCHANGED <<textVars, archive, ordered_files, toc_path, chapter_anchors,
                   zip_open, log, outcome>>

\* The soup handed to get_clean_text for file_path (lines 400-412).
ChapterSoup(files, anchors, file_path) ==
    LET parsed == files[file_path].soup
        cleaned == [parsed EXCEPT !.children = Decompose(@)]
        normalized_path == normpath(file_path)
        anchor_ids == IF normalized_path \in DOMAIN anchors
                      THEN anchors[normalized_path] ELSE <<>>
    IN  insert_anchor_markers(cleaned, anchor_ids)

\* What one turn of the loop does with file_path: "missing" (KeyError),
\* "skipped" (not an HTML name), "error" (another exception), "empty" (no
\* text) or "written".
Disposition(files, anchors, file_path) ==
    IF file_path \notin DOMAIN files THEN "missing"
    ELSE IF ~IsHtmlPath(file_path) THEN "skipped"
    ELSE IF files[file_path].fails THEN "error"
    ELSE IF StripWS(get_clean_text(ChapterSoup(files, anchors, file_path))) = <<>>
         THEN "empty"
    ELSE "written"

\* Lines 416-419 as a bug would have them: the separator is not written.
WriteChapterOnly(out, t) == out \o <<t>>

\* Lines 416-419: txt_file.write(text); txt_file.write(chapter_separator)
WriteChapter(out, t) == out \o <<t, CHAPTER_SEPARATOR>>

\* Lines 422-430 as a bug would have them: a missing file is passed over in
\* silence.
LoggedErrorsOnly(lg, what, file_path) ==
    IF what = "error" THEN Append(lg, <<"Error processing", file_path>>) ELSE lg

\* Lines 422-430: what the except clauses print.
Logged(lg, what, file_path) ==
    CASE what = "missing" -> Append(lg, <<"Missing file", file_path>>)
      [] what = "error" -> Append(lg, <<"Error processing", file_path>>)
      [] OTHER -> lg

\* Lines 388-430: one turn of the loop over ordered_files.
ProcessFile ==
    /\ pc = "loop"
    /\ file_idx <= Len(ordered_files)
    /\ LET file_path == ordered_files[file_idx]
           what == Disposition(archive.files, chapter_anchors, file_path)
           sp == ChapterSoup(archive.files, chapter_anchors, file_path)
       IN  /\ IF what \in {"empty", "written"}
              THEN /\ soup' = sp
                   /\ segments' = Parts(sp)
                   /\ text' = get_clean_text(sp)
              ELSE UNCHANGED textVars
           /\ IF what = "written"
              THEN /\ written' = WriteChapter(written, get_clean_text(sp))
                   /\ wrote_content' = TRUE
                   /\ last_was_separator' = TRUE
              ELSE UNCHANGED <<written, wrote_content, last_was_separator>>
           /\ log' = Logged(log, what, file_path)
    /\ file_idx' = file_idx + 1
    /\ UNCHANGED <<pc, archive, ordered_files, toc_path, chapter_anchors,
                   out_state, zip_open, outcome>>

\* The footer: the timestamp is whatever the clock says.
FOOTER == << <<"File converted by epub2txt", NL>>,
             <<"https://github.com/SPACESODA/epub2txt", NL>>,
             <<"Converted at: ", "<timestamp>", NL>> >>

\* Lines 432-438 and 446-448: the footer, the end of both with blocks.
WriteFooter ==
    /\ pc = "loop"
    /\ file_idx > Len(ordered_files)
    /\ written' = written
                  \o (IF last_was_separator THEN <<>> ELSE << <<NL, NL>> >>)
                  \o FOOTER
    /\ out_state' = "closed"
    /\ zip_open' = LeaveZip(zip_open, FALSE)
    /\ outcome' = "ok"
    /\ pc' = "done"
    /\ UNCHANGED <<textVars, archive, ordered_files, toc_path, chapter_anchors,
                   file_idx, wrote_content, last_was_separator, log>>

Next ==
    \/ CheckExists
    \/ OpenZip
    \/ ParseStructure
    \/ ResolveOrder
    \/ ParseToc
    \/ OpenOutput
    \/ ProcessFile
    \/ WriteFooter

(***************************************************************************)
(* SpecNorm: normalize_extracted_text on every list of segments add_text   *)
(* can build (no segment is empty) within MaxChars characters.             *)
(***************************************************************************)
NormalChars == {"a", SP, NL}
PreChars == {"x", NL, CR}

StringsOver(chars, n) == UNION {[1..k -> chars] : k \in 1..n}

TotalLen(segs) == Len(Join([i \in 1..Len(segs) |-> segs[i][1]]))

InitNorm ==
    /\ pc = "norm_build"
    /\ soup = NoNode
    /\ segments = <<>>
    /\ text = <<>>
    /\ NoRun

\* parts.append((text, is_pre)) of add_text.
AppendPart ==
    /\ pc = "norm_build"
    /\ TotalLen(segments) < MaxChars
    /\ \E is_pre \in BOOLEAN :
         \E t \in StringsOver(IF is_pre THEN PreChars ELSE NormalChars,
                              MaxChars - TotalLen(segments)) :
             segments' = Append(segments, <<t, is_pre>>)
    /\ UNCHANGED <<pc, soup, text, runVars>>

\* return normalize_extracted_text(parts)
Normalize ==
    /\ pc = "norm_build"
    /\ text' = normalize_extracted_text(segments)
    /\ pc' = "norm_done"
    /\ UNCHANGED <<soup, segments, runVars>>

NextNorm == AppendPart \/ Normalize

SpecNorm == InitNorm /\ [][NextNorm]_vars

(***************************************************************************)
(* Claims about normalize_extracted_text (SpecNorm)                        *)
(***************************************************************************)
\* Whether needle occurs in hay as a contiguous substring.
Contains(hay, needle) ==
    \E p \in 0..(Len(hay) - Len(needle)) :
        SubSeq(hay, p + 1, p + Len(needle)) = needle

\* For each character of Combined(segs), whether a preformatted segment
\* brought it.
OriginIsPre(segs) ==
    LET out == OutputList(segs, <<>>)
    IN  Join([i \in 1..Len(out) |-> [j \in 1..Len(out[i][1]) |-> out[i][2]]])

\* The same for each character of normalize_extracted_text(segs): the two
\* last substitutions cut the leading and the trailing newlines.
FinalOriginIsPre(segs) ==
    LET lead == RunLen(Combined(segs), {NL})
    IN  SubSeq(OriginIsPre(segs), lead + 1,
               lead + Len(normalize_extracted_text(segs)))

\* The maximal runs of consecutive normal segments of segs, each joined:
\* what flush_normal is called on.
RECURSIVE NormalRuns(_, _)
NormalRuns(segs, buffer) ==
    LET done == IF buffer = <<>> THEN <<>> ELSE <<buffer>>
    IN  IF segs = <<>> THEN done
        ELSE IF Head(segs)[2] THEN done \o NormalRuns(Tail(segs), <<>>)
        ELSE NormalRuns(Tail(segs), buffer \o Head(segs)[1])

\* s with every newline that follows two newlines removed: each run of
\* three or more newlines cut to two, all else kept.
CapNewlineRuns(s) ==
    LET keep == {i \in 1..Len(s) :
                    ~(i >= 3 /\ s[i] = NL /\ s[i-1] = NL /\ s[i-2] = NL)}
        RECURSIVE Pick(_)
        Pick(i) == IF i > Len(s) THEN <<>>
                   ELSE (IF i \in keep THEN <<s[i]>> ELSE <<>>) \o Pick(i + 1)
    IN  Pick(1)

\* A string with a run of three or more newlines between two other
\* characters.
HasInnerLongRun(s) ==
    \E i \in 2..(Len(s) - 3) :
        /\ s[i-1] # NL
        /\ s[i] = NL /\ s[i+1] = NL /\ s[i+2] = NL

\* The normal pieces of the output list, in order.
NormalPieces(segs) ==
    LET out == OutputList(segs, <<>>)
        RECURSIVE Sel(_)
        Sel(i) == IF i > Len(out) THEN <<>>
                  ELSE (IF out[i][2] THEN <<>> ELSE <<out[i][1]>>) \o Sel(i + 1)
    IN  Sel(1)

\* C10: after normalize_extracted_text no three consecutive newlines of the
\* chapter block all come from normal-flow segments; every run of three or
\* more newlines of a flushed normal buffer (after its whitespace next to
\* newlines is dropped) is cut to exactly two and nothing else of it changes,
\* whatever preformatted segments stand between the normal ones; and the
\* newlines inside a preformatted segment are not collapsed: the segment,
\* line endings normalized and its own outer newlines aside, stands in the
\* block as it was.
C10_NoLongNormalNewlineRun ==
    pc = "norm_done" =>
        LET origin == FinalOriginIsPre(segments)
            runs == NormalRuns(segments, <<>>)
            pieces == NormalPieces(segments)
        IN  /\ \A i \in 1..(Len(text) - 2) :
                  ~(/\ text[i] = NL /\ text[i+1] = NL /\ text[i+2] = NL
                    /\ ~origin[i] /\ ~origin[i+1] /\ ~origin[i+2])
            /\ Len(pieces) = Len(runs)
            /\ \A k \in 1..Len(runs) :
                  pieces[k] = CapNewlineRuns(
                      SubSpaceNewline(SubHSpace(NormalizeLineEndings(runs[k]))))
            /\ \A k \in 1..Len(segments) :
                  segments[k][2] =>
                      Contains(text,
                          StripTrailingNewlines(StripLeadingNewlines(
                              NormalizeLineEndings(segments[k][1]))))

\* C10 witness: two normal segments were normalized whose joined text, and
\* not the first alone, holds a run of three newlines or more between other
\* characters, and the block holds exactly two newlines there.
C10_Witness ==
    /\ pc = "norm_done"
    /\ Len(segments) = 2
    /\ HasInnerLongRun(segments[1][1] \o segments[2][1])
    /\ ~HasInnerLongRun(segments[1][1])
    /\ text = <<"a", NL, NL, "a">>

\* C11 as stated: every preformatted segment stands in the chapter block
\* with its line endings normalized and nothing else changed, wherever it
\* stands among the segments.
C11_PreVerbatimEverywhere ==
    pc = "norm_done" =>
        \A k \in 1..Len(segments) :
            segments[k][2] =>
                Contains(text, NormalizeLineEndings(segments[k][1]))

\* C11, amended: every preformatted segment goes to the output list with
\* its line endings normalized and nothing else changed, and the chapter
\* block is the joined list without the newlines it begins and ends with:
\* a preformatted segment loses only the newlines of its own that begin or
\* end the whole block.
C11_PreVerbatimButOuterNewlines ==
    pc = "norm_done" =>
        LET out == OutputList(segments, <<>>)
            pres == SelectSeq(segments, LAMBDA sg : sg[2])
            kept == SelectSeq(out, LAMBDA piece : piece[2])
            joined == Combined(segments)
            lead == RunLen(joined, {NL})
        IN  /\ Len(kept) = Len(pres)
            /\ \A k \in 1..Len(pres) :
                   kept[k][1] = NormalizeLineEndings(pres[k][1])
            /\ Len(OriginIsPre(segments)) = Len(joined)
            /\ \A i \in 1..Len(text) : text[i] = joined[lead + i]
            /\ \A i \in 1..Len(joined) :
                   (i <= lead \/ i > lead + Len(text)) => joined[i] = NL
            /\ text # <<>> => text[1] # NL /\ text[Len(text)] # NL

\* A normal segment and a preformatted one that begins with three newlines:
\* they stay, between the two.
C11_Witness ==
    /\ pc = "norm_done"
    /\ segments = << << <<"a">>, FALSE >>, << <<NL, NL, NL, "x">>, TRUE >> >>
    /\ text = <<"a", NL, NL, NL, "x">>

(***************************************************************************)
(* SpecWalk: get_clean_text on every document whose body has at most       *)
(* MaxBody children drawn from WalkBlocks.                                 *)
(***************************************************************************)
Txt(s) == [NoNode EXCEPT !.name = "#text", !.text = s]
El(name, id, kids) == [NoNode EXCEPT !.name = name, !.id = id, !.children = kids]

\* The objects of a parsed tree are distinct: oid numbers them in document
\* order from k on.  The result is <<the numbered nodes, the next number>>.
RECURSIVE NumberKids(_, _)
NumberKids(kids, k) ==
    IF kids = <<>> THEN <<kids, k>>
    ELSE LET below == NumberKids(Head(kids).children, k + 1)
             first == [Head(kids) EXCEPT !.oid = k, !.children = below[1]]
             rest == NumberKids(Tail(kids), below[2])
         IN  << <<first>> \o rest[1], rest[2] >>

\* BeautifulSoup(content, 'html.parser') of a document with this body.
Soup(body_kids) ==
    NumberKids(<< El("[document]", "",
                     << El("html", "",
                           << El("head", "", << El("title", "", <<Txt(<<"T">>)>>) >>),
                              El("body", "", body_kids) >>) >>) >>, 1)[1][1]

HeadingLevels == 1..MAX_HEADING_LEVEL
HeadingName(n) == CHOOSE h \in HEADING_NAMES : HEADING_TAGS[h] = n

WalkBlocks ==
    {Txt(<<"a">>), Txt(<<NL, SP>>), El("p", "", <<Txt(<<"b">>)>>),
     El("h3", "", <<Txt(<<"t", NL, "u">>)>>),
     El("h2", "", <<>>),
     El("pre", "", <<El("h1", "", <<Txt(<<"t">>)>>)>>)}
    \cup {El(HeadingName(n), "", <<Txt(<<"t">>)>>) : n \in HeadingLevels}

SeqsUpTo(set, n) == UNION {[1..k -> set] : k \in 0..n}

InitWalk ==
    /\ pc = "walk_start"
    /\ soup \in {Soup(kids) : kids \in SeqsUpTo(WalkBlocks, MaxBody)}
    /\ segments = <<>>
    /\ text = <<>>
    /\ NoRun

\* get_clean_text(soup)
Extract ==
    /\ pc = "walk_start"
    /\ segments' = Parts(soup)
    /\ text' = normalize_extracted_text(Parts(soup))
    /\ pc' = "walk_done"
    /\ UNCHANGED <<soup, runVars>>

NextWalk == Extract

SpecWalk == InitWalk /\ [][NextWalk]_vars

(***************************************************************************)
(* SpecLists: get_clean_text on every document whose body has at most      *)
(* MaxBody children drawn from ListBlocks: lists of one to three levels,   *)
(* ul and ol mixed as in the test book, a list right inside a list, an     *)
(* item outside any list, a list inside pre, a pre inside an item, an      *)
(* empty item.                                                             *)
(***************************************************************************)
ListBlocks ==
    {Txt(<<"a">>), El("p", "", <<Txt(<<"b">>)>>),
     El("ul", "", <<El("li", "", <<Txt(<<"a">>)>>)>>),
     El("ul", "", <<El("li", "", <<Txt(<<"a">>),
         El("ol", "", <<El("li", "", <<Txt(<<"b">>),
             El("ul", "", <<El("li", "", <<Txt(<<"c">>)>>)>>)>>)>>)>>)>>),
     El("ol", "", <<El("ul", "", <<El("li", "", <<Txt(<<"a">>)>>)>>)>>),
     El("li", "", <<Txt(<<"a">>)>>),
     El("pre", "", <<El("ul", "", <<El("li", "", <<Txt(<<"x">>)>>)>>)>>),
     El("ul", "", <<El("li", "", <<El("pre", "", <<Txt(<<"x", NL, SP, "x">>)>>)>>)>>),
     El("ul", "", <<El("li", "", <<>>)>>)}

InitLists ==
    /\ pc = "walk_start"
    /\ soup \in {Soup(kids) : kids \in SeqsUpTo(ListBlocks, MaxBody)}
    /\ segments = <<>>
    /\ text = <<>>
    /\ NoRun

SpecLists == InitLists /\ [][NextWalk]_vars

(***************************************************************************)
(* Claims about lists (SpecLists)                                          *)
(***************************************************************************)
\* The nesting depths of the list items outside preformatted context, in
\* document order: the depth of an item is the number of ul and ol
\* elements around it.
RECURSIVE ItemDepths(_, _, _)
ItemDepths(kids, d, in_pre) ==
    IF kids = <<>> THEN <<>>
    ELSE LET k == Head(kids)
             here ==
                 IF k.name = "#text" \/ k.name \in SKIP_TAGS THEN <<>>
                 ELSE IF k.name \in {"ul", "ol"}
                 THEN ItemDepths(k.children, d + 1, in_pre)
                 ELSE IF k.name = "li"
                 THEN (IF in_pre THEN <<>> ELSE <<d>>)
                          \o ItemDepths(k.children, d, in_pre)
                 ELSE ItemDepths(k.children, d, in_pre \/ k.name \in PRE_TAGS)
         IN  here \o ItemDepths(Tail(kids), d, in_pre)

\* str.split("\n")
Lines(s) ==
    LET breaks == <<0>> \o SelectSeq([i \in 1..Len(s) |-> i], LAMBDA i : s[i] = NL)
                      \o <<Len(s) + 1>>
    IN  [k \in 1..(Len(breaks) - 1) |-> SubSeq(s, breaks[k] + 1, breaks[k + 1] - 1)]

\* The numbers of spaces before the bullet, of the lines of t that are
\* spaces, then "- ".
BulletIndents(t) ==
    LET bullet(l) == LET after == Drop(l, RunLen(l, {SP}))
                     IN  Len(after) >= 2 /\ SubSeq(after, 1, 2) = <<"-", SP>>
        lines == SelectSeq(Lines(t), bullet)
    IN  [i \in 1..Len(lines) |-> RunLen(lines[i], {SP})]

Content(sp) == [soup |-> sp, fails |-> FALSE, xml_result |-> "ParseError",
                xml_root |-> NoNode]
Unreadable == [Content(NoNode) EXCEPT !.fails = TRUE]

Item(id, href, properties, media_type) ==
    [id |-> id, href |-> href, properties |-> properties,
     media_type |-> media_type]

XHTML_TYPE == "application/xhtml+xml"

OpfAt == <<"OEBPS", "content.opf">>
InBook(name) == <<"OEBPS", name>>

BookManifest ==
    << Item("a", <<"a.xhtml">>, {}, XHTML_TYPE),
       Item("b", <<"b%2Exhtml">>, {}, XHTML_TYPE),
       Item("img", <<"cover.svg">>, {}, "image/svg+xml"),
       Item("f", <<"#", "x">>, {}, XHTML_TYPE) >>

BookIdrefs == {"a", "b", "img", "f", "zz"}

Paragraph(c) == Soup(<< El("p", "", <<Txt(<<c>>)>>) >>)

\* What each chapter file of a book may be; "absent": not in the archive.
BookChoices ==
    [a : {"absent", "text", "blank", "unreadable"},
     b : {"absent", "text", "unreadable"},
     c : {"absent", "text"}]

\* The entries of the archive in the order of namelist().
ZipOrder == << OpfAt, InBook("cover.svg"), InBook("b.xhtml"), InBook("a.xhtml"),
               InBook("C.HTM") >>

BookFiles(ch) ==
    LET what == (InBook("a.xhtml") :> ch.a) @@ (InBook("b.xhtml") :> ch.b)
                @@ (InBook("C.HTM") :> ch.c) @@ (InBook("cover.svg") :> "blank")
        letter == (InBook("a.xhtml") :> "a") @@ (InBook("b.xhtml") :> "b")
                  @@ (InBook("C.HTM") :> "c") @@ (InBook("cover.svg") :> "s")
    IN  [p \in {q \in DOMAIN what : what[q] # "absent"} |->
            CASE what[p] = "text" -> Content(Paragraph(letter[p]))
              [] what[p] = "blank" -> Content(Paragraph(SP))
              [] OTHER -> Unreadable]

Book(has_spine, itemrefs, ch) ==
    [exists |-> TRUE, is_zip |-> TRUE, container |-> OpfAt,
     names |-> SelectSeq(ZipOrder,
                         LAMBDA p : p = OpfAt \/ p \in DOMAIN BookFiles(ch)),
     opf_at |-> OpfAt,
     opf |-> [parses |-> TRUE, manifest |-> BookManifest,
              has_spine |-> has_spine, toc |-> "", itemrefs |-> itemrefs],
     files |-> BookFiles(ch)]

DefaultBook == Book(TRUE, <<"a", "b">>, [a |-> "text", b |-> "text", c |-> "absent"])

\* Archives that are not there, are no zip files, or whose package document
\* is not found or not parsed; the one before last is found by its name.
DamagedArchives ==
    { [DefaultBook EXCEPT !.exists = FALSE],
      [DefaultBook EXCEPT !.is_zip = FALSE],
      [DefaultBook EXCEPT !.container = <<"missing.opf">>],
      [DefaultBook EXCEPT !.opf.parses = FALSE],
      [DefaultBook EXCEPT !.container = <<>>],
      [DefaultBook EXCEPT !.container = <<>>, !.opf_at = <<>>,
                          !.names = Tail(DefaultBook.names)] }

Books ==
    {Book(TRUE, refs, ch) : refs \in SeqsUpTo(BookIdrefs, MaxSpine),
                            ch \in BookChoices}
    \cup {Book(FALSE, <<>>, ch) : ch \in BookChoices}
    \cup DamagedArchives

StartRun ==
    /\ pc = "start"
    /\ soup = NoNode
    /\ segments = <<>>
    /\ text = <<>>
    /\ ordered_files = <<>>
    /\ toc_path = <<>>
    /\ chapter_anchors = <<>>
    /\ file_idx = 1
    /\ written = <<>>
    /\ out_state = "absent"
    /\ zip_open = FALSE
    /\ wrote_content = FALSE
    /\ last_was_separator = FALSE
    /\ log = <<>>
    /\ outcome = "running"

Init == archive \in Books /\ StartRun

Spec == Init /\ [][Next]_vars

(***************************************************************************)
(* SpecAnchors: epub_to_text on books of one chapter, a.xhtml, whose body  *)
(* has at most MaxBody children drawn from AnchorBlocks, with a table of   *)
(* contents of one of TocKinds; the spine names the chapter or is empty.   *)
(***************************************************************************)
Named(name, nm, kids) == [El(name, "", kids) EXCEPT !.nm = nm]
Ref(name, href, kids) == [El(name, "", kids) EXCEPT !.ref = href]

AnchorBlocks ==
    { El("h1", "x", <<Txt(<<"t">>)>>),
      El("p", "", <<Txt(<<"a">>)>>),
      Named("a", "y", <<>>),
      El("p", "y", <<Txt(<<"b">>)>>),
      El("h1", "x", <<El("span", "y", <<Txt(<<"u">>)>>)>>) }

\* An href into the chapter, from a document next to it.
Into(fragment) == <<"a.xhtml", "#", fragment>>

\* <li><a href=...>L</a> and the lists in below </li>
NavEntry(href, below) == El("li", "", <<Ref("a", href, <<Txt(<<"L">>)>>)>> \o below)

\* <nav epub:type="toc"><ol> entries </ol></nav>
NavElement(entries) ==
    [El("nav", "", <<El("ol", "", entries)>>) EXCEPT !.epub_type = "toc"]

NavPoint(href, below) ==
    El("navPoint", "",
       << El("navLabel", "", <<El("text", "", <<Txt(<<"L">>)>>)>>),
          Ref("content", href, <<>>) >> \o below)

Ncx(xml_result, root_kids) ==
    [soup |-> NoNode, fails |-> FALSE, xml_result |-> xml_result,
     xml_root |-> El("ncx", "", root_kids)]

NavItem == Item("nav", <<"nav.xhtml">>, {"nav"}, XHTML_TYPE)
NcxItem == Item("ncx", <<"toc.ncx">>, {}, NCX_MEDIA_TYPE)

NavKind(body_kids) ==
    [item |-> <<NavItem>>, at |-> <<InBook("nav.xhtml")>>,
     content |-> <<Content(Soup(body_kids))>>]

NcxKind(xml_result, root_kids) ==
    [item |-> <<NcxItem>>, at |-> <<InBook("toc.ncx")>>,
     content |-> <<Ncx(xml_result, root_kids)>>]

\* Tables of contents with two depth-1 entries into the chapter, or one, or
\* one nested in the other; the one before last also has entries into
\* itself and into an image, neither of them in the spine; in the last one
\* the item of the top-level list has a label that is no link, and a
\* nested list with the one link.
GoodTocKinds ==
    { NavKind(<<NavElement(<<NavEntry(Into("x"), <<>>), NavEntry(Into("y"), <<>>)>>)>>),
      NavKind(<<NavElement(<<NavEntry(Into("y"), <<>>), NavEntry(Into("%78"), <<>>)>>)>>),
      NavKind(<<NavElement(<<NavEntry(Into("x"), <<>>), NavEntry(Into("q"), <<>>)>>)>>),
      NavKind(<<NavElement(
                  <<NavEntry(Into("x"),
                             <<El("ol", "", <<NavEntry(Into("y"), <<>>)>>)>>)>>)>>),
      NcxKind("ok", <<El("navMap", "",
                         <<NavPoint(Into("x"), <<>>), NavPoint(Into("y"), <<>>)>>)>>),
      NavKind(<<NavElement(<<NavEntry(<<"nav.xhtml", "#", "x">>, <<>>),
                             NavEntry(<<"cover.svg", "#", "x">>, <<>>),
                             NavEntry(Into("y"), <<>>)>>)>>),
      NavKind(<<NavElement(
                  <<El("li", "",
                       <<El("span", "", <<Txt(<<"P">>)>>),
                         El("ol", "", <<NavEntry(Into("y"), <<>>)>>)>>)>>)>>) }

\* No navigation document, or a malformed one: named but not in the archive,
\* without a nav element, without a list, not XML, XML with a declaration
\* ET.fromstring does not take, without a navMap.
BadTocKinds ==
    { [item |-> <<>>, at |-> <<>>, content |-> <<>>],
      [item |-> <<NavItem>>, at |-> <<>>, content |-> <<>>],
      NavKind(<<El("p", "", <<Txt(<<"n">>)>>)>>),
      NavKind(<<[El("nav", "", <<Txt(<<"n">>)>>) EXCEPT !.epub_type = "toc"]>>),
      NcxKind("ParseError", <<>>),
      NcxKind("ValueError", <<>>),
      NcxKind("ok", <<El("docTitle", "", <<>>)>>) }

TocKinds == GoodTocKinds \cup BadTocKinds

ChapterItem == Item("a", <<"a.xhtml">>, {}, XHTML_TYPE)

AnchorBook(body_kids, kind, itemrefs) ==
    [exists |-> TRUE, is_zip |-> TRUE, container |-> OpfAt,
     names |-> <<OpfAt>> \o kind.at \o <<InBook("a.xhtml")>>,
     opf_at |-> OpfAt,
     opf |-> [parses |-> TRUE, manifest |-> <<ChapterItem>> \o kind.item,
              has_spine |-> TRUE, toc |-> "", itemrefs |-> itemrefs],
     files |-> [p \in {InBook("a.xhtml")} \cup {kind.at[i] : i \in DOMAIN kind.at} |->
                   IF p = InBook("a.xhtml") THEN Content(Soup(body_kids))
                   ELSE kind.content[1]]]

AnchorBooks ==
    {AnchorBook(body_kids, kind, itemrefs) :
         body_kids \in SeqsUpTo(AnchorBlocks, MaxBody),
         kind \in TocKinds,
         itemrefs \in {<<"a">>, <<>>}}

InitAnchors == archive \in AnchorBooks /\ StartRun

SpecAnchors == InitAnchors /\ [][Next]_vars

(***************************************************************************)
(* SpecOpf: epub_to_text on books of one chapter whose package document    *)
(* has a manifest of at most MaxItems items drawn from OpfItems, and a     *)
(* spine with or without a toc attribute, or no spine.                     *)
(***************************************************************************)
OpfItems ==
    { NavItem, NcxItem, ChapterItem,
      Item("ncx2", <<"toc2.ncx">>, {}, NCX_MEDIA_TYPE),
      Item("nav2", <<"nav2.xhtml">>, {"nav", "scripted"}, XHTML_TYPE),
      Item("", <<"nav2.xhtml">>, {"nav"}, XHTML_TYPE) }

OpfTocs == {"", "ncx", "a", "zz"}

OpfBook(manifest, has_spine, toc) ==
    [exists |-> TRUE, is_zip |-> TRUE, container |-> OpfAt,
     names |-> <<OpfAt, InBook("toc.ncx"), InBook("nav.xhtml"), InBook("a.xhtml")>>,
     opf_at |-> OpfAt,
     opf |-> [parses |-> TRUE, manifest |-> manifest, has_spine |-> has_spine,
              toc |-> toc, itemrefs |-> <<"a">>],
     files |-> (InBook("a.xhtml") :> Content(Paragraph("a")))
               @@ (InBook("nav.xhtml") :>
                       Content(Soup(<<NavElement(<<NavEntry(Into("x"), <<>>)>>)>>)))
               @@ (InBook("toc.ncx") :> Ncx("ok", <<El("navMap", "", <<>>)>>))]

OpfBooks ==
    {OpfBook(manifest, TRUE, toc) :
         manifest \in SeqsUpTo(OpfItems, MaxItems), toc \in OpfTocs}
    \cup {OpfBook(manifest, FALSE, "ncx") : manifest \in SeqsUpTo(OpfItems, MaxItems)}

InitOpf == archive \in OpfBooks /\ StartRun

SpecOpf == InitOpf /\ [][Next]_vars

(***************************************************************************)
(* Claims about get_clean_text (SpecWalk)                                  *)
(***************************************************************************)
\* The heading elements with non-empty text that the walk meets outside
\* preformatted content, below the given children.
RECURSIVE HeadingsOutsidePre(_)
HeadingsOutsidePre(kids) ==
    IF kids = <<>> THEN {}
    ELSE LET n == Head(kids)
             here == IF n.name \in HEADING_NAMES /\ GetText(n) # <<>> THEN {n}
                     ELSE IF n.name \in PRE_TAGS \cup SKIP_TAGS
                               \/ n.name \in HEADING_NAMES
                          THEN {}
                          ELSE HeadingsOutsidePre(n.children)
         IN  here \cup HeadingsOutsidePre(Tail(kids))

\* The line the claim gives a heading: N "#", a space, the heading text (its
\* inner whitespace collapsed, section 4.5).
ClaimedHeadingLine(h) ==
    Repeat("#", HEADING_TAGS[h.name]) \o <<SP>> \o SubWSpace(GetText(h))

\* line stands in block t as a whole line at p+1, with an empty line before
\* it unless the block starts there and one after it unless the block ends.
FlankedLineAt(t, line, p) ==
    LET e == p + Len(line)
    IN  /\ e <= Len(t)
        /\ SubSeq(t, p + 1, e) = line
        /\ (p = 0 \/ (p >= 2 /\ t[p] = NL /\ t[p-1] = NL))
        /\ (e = Len(t) \/ (e + 2 <= Len(t) /\ t[e+1] = NL /\ t[e+2] = NL))

\* C9: every heading of level N with non-empty text outside preformatted
\* content is, in the chapter block, a line of N "#", a space and the
\* heading text, with an empty line before it and after it wherever other
\* content of the block precedes or follows.
C9_HeadingLineFlanked ==
    pc = "walk_done" =>
        \A h \in HeadingsOutsidePre(Body(soup).children) :
            \E p \in 0..Len(text) : FlankedLineAt(text, ClaimedHeadingLine(h), p)


(***************************************************************************)
(* Claims about epub_to_text (Spec)                                        *)
(***************************************************************************)
\* The archive opens and its package document is found and parsed.
Healthy(arch) ==
    /\ arch.exists
    /\ arch.is_zip
    /\ arch.opf_at # <<>>
    /\ get_epub_rootfile(arch) = arch.opf_at
    /\ arch.opf.parses

\* The spine parse_opf returns for the archive.
SpineOf(arch) == parse_opf(arch.opf, arch.opf_at).full_paths

\* The text of the chapter at path p, given the anchors of the book.
ChapterText(arch, anchors, p) == get_clean_text(ChapterSoup(arch.files, anchors, p))

\* p is an HTML-family document of the archive that contains text.
ReadableText(arch, p) ==
    /\ p \in DOMAIN arch.files
    /\ IsHtmlPath(p)
    /\ ~arch.files[p].fails
    /\ StripWS(ChapterText(arch, <<>>, p)) # <<>>

\* Reading p fails: it is not in the archive, or its document raises.
Fails(arch, p) ==
    \/ p \notin DOMAIN arch.files
    \/ IsHtmlPath(p) /\ arch.files[p].fails

\* What is written for the paths, in their order: for each HTML-family
\* document with text, its block and the chapter separator.
RECURSIVE BlocksOf(_, _, _)
BlocksOf(arch, anchors, paths) ==
    IF paths = <<>> THEN <<>>
    ELSE (IF /\ ~Fails(arch, Head(paths))
             /\ IsHtmlPath(Head(paths))
             /\ StripWS(ChapterText(arch, anchors, Head(paths))) # <<>>
          THEN <<ChapterText(arch, anchors, Head(paths)), CHAPTER_SEPARATOR>>
          ELSE <<>>)
         \o BlocksOf(arch, anchors, Tail(paths))

\* The diagnostics of the paths, in their order.
RECURSIVE DiagnosticsOf(_, _)
DiagnosticsOf(arch, paths) ==
    IF paths = <<>> THEN <<>>
    ELSE (IF Head(paths) \notin DOMAIN arch.files
          THEN << <<"Missing file", Head(paths)>> >>
          ELSE IF Fails(arch, Head(paths))
          THEN << <<"Error processing", Head(paths)>> >>
          ELSE <<>>)
         \o DiagnosticsOf(arch, Tail(paths))

\* The end of the output after these blocks.
Ending(blocks) == (IF blocks = <<>> THEN << <<NL, NL>> >> ELSE <<>>) \o FOOTER

\* The lines of the log that are about one file.
FileLog == SelectSeq(log, LAMBDA l : Len(l) = 2)

\* C1: when the spine resolves to N >= 1 HTML-family documents that are in
\* the archive and contain text, and no TOC anchor applies to them, the
\* conversion does not fail and the output is exactly N non-empty chapter
\* blocks in spine order, each followed by the chapter separator, and then
\* the footer.
C1_NBlocksInSpineOrder ==
    LET spine == SpineOf(archive)
        N == Len(spine)
    IN  (/\ Healthy(archive)
         /\ N >= 1
         /\ \A i \in 1..N : ReadableText(archive, spine[i]))
        => /\ pc # "raised"
           /\ (/\ pc = "done"
               /\ \A i \in 1..N : normpath(spine[i]) \notin DOMAIN chapter_anchors)
              => /\ Len(written) = 2 * N + Len(FOOTER)
                 /\ \A i \in 1..N :
                        /\ written[2 * i - 1] = ChapterText(archive, <<>>, spine[i])
                        /\ written[2 * i - 1] # <<>>
                        /\ written[2 * i] = CHAPTER_SEPARATOR
                 /\ SubSeq(written, 2 * N + 1, Len(written)) = FOOTER

\* A finished conversion of a spine of three readable documents that is
\* not in the order of their names.
C1_Witness ==
    /\ pc = "done"
    /\ SpineOf(archive) = <<InBook("b.xhtml"), InBook("a.xhtml"), InBook("b.xhtml")>>
    /\ \A i \in 1..3 : ReadableText(archive, SpineOf(archive)[i])
    /\ chapter_anchors = <<>>
    /\ written = << <<"b">>, CHAPTER_SEPARATOR, <<"a">>, CHAPTER_SEPARATOR,
                    <<"b">>, CHAPTER_SEPARATOR >> \o FOOTER

\* C3: a spine file that is not in the archive, or whose document raises,
\* gets a line in the log and nothing in the output, and the conversion
\* goes on: at the end the output is the blocks of the other files in spine
\* order and the footer, and once the output is open the conversion never
\* raises.
C3_FailureSkipsOneFile ==
    /\ pc = "raised" => out_state = "absent"
    /\ pc = "done" =>
          LET others == SelectSeq(ordered_files, LAMBDA p : ~Fails(archive, p))
              blocks == BlocksOf(archive, chapter_anchors, others)
          IN  /\ outcome = "ok"
              /\ written = blocks \o Ending(blocks)
              /\ FileLog = DiagnosticsOf(archive, ordered_files)

\* A finished conversion of a spine of three files whose second raises: the
\* first and the third are written.
C3_Witness ==
    /\ pc = "done"
    /\ ordered_files = <<InBook("a.xhtml"), InBook("b.xhtml"), InBook("a.xhtml")>>
    /\ InBook("b.xhtml") \in DOMAIN archive.files
    /\ archive.files[InBook("b.xhtml")].fails
    /\ FileLog = << <<"Error processing", InBook("b.xhtml")>> >>
    /\ written = << <<"a">>, CHAPTER_SEPARATOR, <<"a">>, CHAPTER_SEPARATOR >> \o FOOTER

\* C5: when no spine entry is an HTML-family path and the archive has
\* no HTML-family entry, the conversion stops with the empty-content error:
\* it never goes on to read files, and never ends in success.
C5_NoContentIsAnError ==
    (/\ Healthy(archive)
     /\ \A i \in 1..Len(SpineOf(archive)) : ~IsHtmlPath(SpineOf(archive)[i])
     /\ \A i \in 1..Len(archive.names) : ~IsHtmlPath(archive.names[i]))
    => pc \notin {"toc", "open_out", "loop", "done"}

\* The manifest item an idref names: the last item with this id, among the
\* items that have an id and an href.  <<>> when there is none.
ItemsOf(opf, idref) ==
    SelectSeq(opf.manifest,
              LAMBDA it : it.id = idref /\ it.id # "" /\ it.href # <<>>)

\* The itemrefs in document order, each mapped through the manifest and
\* resolved against the directory of the package document; an itemref that
\* names no item is left out.
RECURSIVE ResolvedItemrefs(_, _, _)
ResolvedItemrefs(opf, itemrefs, opf_dir) ==
    IF itemrefs = <<>> THEN <<>>
    ELSE LET its == ItemsOf(opf, Head(itemrefs))
         IN  (IF its = <<>> THEN <<>>
              ELSE << resolve_zip_path(opf_dir, its[Len(its)].href) >>)
             \o ResolvedItemrefs(opf, Tail(itemrefs), opf_dir)

ClaimedSpine(arch) ==
    IF arch.opf.has_spine
    THEN ResolvedItemrefs(arch.opf, arch.opf.itemrefs, dirname(arch.opf_at))
    ELSE <<>>

\* C7 as stated: the spine parse_opf returns has one path for each itemref
\* whose idref is a manifest id, in document order; nothing else is removed.
C7_SpineIsItemrefsInOrder ==
    pc = "order" => ordered_files = ClaimedSpine(archive)

\* C7, amended: the spine parse_opf returns is the itemrefs in document
\* order mapped through the manifest and resolved, without those whose idref
\* is not a manifest id and those whose href resolves to the empty path;
\* repeated entries stay.  A spine that is not empty is the order of the
\* conversion: after k turns of the loop the output and the log are those
\* of its first k files, in that order.
C7_SpineIsResolvedItemrefsInOrder ==
    LET spine == SelectSeq(ClaimedSpine(archive), LAMBDA p : p # <<>>)
    IN  /\ pc = "order" => ordered_files = spine
        /\ (pc \in {"loop", "done"} /\ spine # <<>>) =>
              LET turns == SubSeq(ordered_files, 1, file_idx - 1)
                  blocks == BlocksOf(archive, chapter_anchors, turns)
              IN  /\ ordered_files = spine
                  /\ FileLog = DiagnosticsOf(archive, turns)
                  /\ written = blocks \o (IF pc = "done" THEN Ending(blocks) ELSE <<>>)

\* A finished conversion of a spine that names the second chapter, an item
\* whose href is only a fragment, and the second chapter again.
C7_Witness ==
    /\ pc = "done"
    /\ archive.opf.itemrefs = <<"b", "f", "b">>
    /\ ordered_files = <<InBook("b.xhtml"), InBook("b.xhtml")>>
    /\ written = << <<"b">>, CHAPTER_SEPARATOR, <<"b">>, CHAPTER_SEPARATOR >> \o FOOTER


\* The errors of the archive: the input is not there, is no zip file, has
\* no package document that can be found and parsed, has nothing to read.
ArchiveFailures ==
    {"FileNotFoundError", "ValueError: Invalid EPUB file",
     "ValueError: Failed to parse EPUB structure",
     "ValueError: No readable HTML/XHTML content"}

\* C19: when epub_to_text ends with an error of the archive the output
\* file has not been opened and nothing has been written; and the output
\* is opened only for an archive that is there, is a zip file, has a
\* package document that was found and parsed, and has a reading order
\* that is not empty.
C19_NoOutputOnArchiveFailure ==
    /\ (pc = "raised" /\ outcome \in ArchiveFailures) =>
           out_state = "absent" /\ written = <<>>
    /\ out_state # "absent" =>
           /\ archive.exists /\ archive.is_zip
           /\ get_epub_rootfile(archive) = archive.opf_at /\ archive.opf.parses
           /\ ordered_files # <<>>
           /\ outcome \notin ArchiveFailures

\* The package document is not parsed: the structure error, and no output.
C19_Witness ==
    /\ pc = "raised"
    /\ outcome = "ValueError: Failed to parse EPUB structure"
    /\ ~archive.opf.parses
    /\ out_state = "absent"
    /\ written = <<>>

Occurrences(t, sep) ==
    {p \in 0..(Len(t) - Len(sep)) : SubSeq(t, p + 1, p + Len(sep)) = sep}

\* t cut at every sep, from the left.
RECURSIVE SplitOn(_, _)
SplitOn(t, sep) ==
    IF Occurrences(t, sep) = {} THEN <<t>>
    ELSE LET p == CHOOSE q \in Occurrences(t, sep) :
                      \A r \in Occurrences(t, sep) : q <= r
         IN  <<SubSeq(t, 1, p)>> \o SplitOn(SubSeq(t, p + Len(sep) + 1, Len(t)), sep)

\* The chapter blocks of a text: its parts between chapter separators that
\* are not empty.
ChapterBlocks(t) == SelectSeq(SplitOn(t, CHAPTER_SEPARATOR), LAMBDA b : b # <<>>)

\* The walk in short: "m" for each anchor marker it meets and "c" for each
\* piece of text content (a text node that is not blank, a heading with
\* text), in document order.
RECURSIVE Stream(_, _)
Stream(kids, in_pre) ==
    IF kids = <<>> THEN <<>>
    ELSE LET n == Head(kids)
             own == IF n.name = "#text"
                    THEN (IF StripWS(n.text) # <<>> THEN <<"c">> ELSE <<>>)
                    ELSE IF n.name \in SKIP_TAGS THEN <<>>
                    ELSE IF n.name = ANCHOR_MARKER_TAG THEN <<"m">>
                    ELSE IF n.name \in HEADING_NAMES /\ ~in_pre /\ GetText(n) # <<>>
                    THEN <<"c">>
                    ELSE Stream(n.children, in_pre \/ n.name \in PRE_TAGS)
         IN  own \o Stream(Tail(kids), in_pre)

\* The anchor positions with text content right before them: no other
\* anchor position, and not the start of the body.
SplitPoints(stream) ==
    {i \in 2..Len(stream) : stream[i] = "m" /\ stream[i - 1] = "c"}

\* The spine is the one chapter and the table of contents has given two
\* anchors for it, both of elements of its body.
TwoAnchorsCase ==
    /\ Healthy(archive)
    /\ SpineOf(archive) = <<InBook("a.xhtml")>>
    /\ pc = "done"
    /\ InBook("a.xhtml") \in DOMAIN chapter_anchors
    /\ Len(chapter_anchors[InBook("a.xhtml")]) = 2
    /\ \A i \in 1..2 :
           LET found == AnchorTarget(archive.files[InBook("a.xhtml")].soup,
                                     chapter_anchors[InBook("a.xhtml")][i])
           IN  /\ found # NoNode
               /\ \E k \in 1..Len(AncestorsOf(archive.files[InBook("a.xhtml")].soup.children,
                                              found.oid)) :
                      AncestorsOf(archive.files[InBook("a.xhtml")].soup.children,
                                  found.oid)[k].name = "body"

\* C2 as stated: a spine file with two depth-1 anchors into its body is
\* written as two separate chapter blocks (or more).
C2_TwoBlocksForTwoAnchors ==
    TwoAnchorsCase => /\ written # <<>>
                      /\ Len(ChapterBlocks(written[1])) >= 2

\* C2, amended: in a spine file with two depth-1 anchors into its body, a
\* chapter separator is emitted at an anchor position exactly when text
\* content was emitted right before it, since the start of the body and
\* since the anchor position before; the text has two separate chapter
\* blocks or more when text content also follows such a position, and is
\* one block when there is no such position.
C2_SplitWhereTextPrecedesAnchor ==
    TwoAnchorsCase =>
        LET stream == Stream(Body(soup).children, FALSE)
            seps == {i \in 1..Len(segments) : segments[i] = <<CHAPTER_SEPARATOR, FALSE>>}
        IN  /\ Cardinality(seps) = Cardinality(SplitPoints(stream))
            /\ (\E i \in SplitPoints(stream) : \E j \in (i + 1)..Len(stream) :
                    stream[j] = "c")
               => /\ Len(written) >= 2
                  /\ written[1] = text
                  /\ Len(ChapterBlocks(text)) >= 2
            /\ SplitPoints(stream) = {}
               => /\ ~Contains(text, CHAPTER_SEPARATOR)
                  /\ Len(ChapterBlocks(text)) <= 1

\* A heading with id x and a paragraph with id y, both anchors of the table
\* of contents: the chapter is written as the heading, the separator and the
\* paragraph.
C2_Witness ==
    /\ TwoAnchorsCase
    /\ chapter_anchors[InBook("a.xhtml")] = <<"x", "y">>
    /\ Stream(Body(soup).children, FALSE) = <<"m", "c", "m", "c">>
    /\ written[1] = <<"#", SP, "t">> \o CHAPTER_SEPARATOR \o <<"b">>

\* The segment is the boundary signal of add_separator.
IsBoundary(sg) == sg = <<CHAPTER_SEPARATOR, FALSE>>

\* The segment was added as content: in the documents of this family (no
\* lists, no bold) these are the segments with text that is not blank,
\* other than the boundary signal.
IsContentSegment(sg) == ~IsBoundary(sg) /\ StripWS(sg[1]) # <<>>

\* The anchor markers below the given children.
RECURSIVE MarkersIn(_)
MarkersIn(kids) ==
    IF kids = <<>> THEN <<>>
    ELSE (IF Head(kids).name = ANCHOR_MARKER_TAG THEN <<Head(kids)>> ELSE <<>>)
         \o MarkersIn(Head(kids).children) \o MarkersIn(Tail(kids))

\* C14: in the segments of a chapter every boundary signal has a content
\* segment before it with no other boundary signal between the two (so
\* none stands before the first content and no two stand without content
\* between them), and there are no more boundary signals than markers.
C14_BoundaryOnlyAfterContent ==
    (pc \in {"loop", "done"} /\ soup # NoNode) =>
        /\ \A i \in 1..Len(segments) :
               IsBoundary(segments[i]) =>
                   \E j \in 1..(i - 1) :
                       /\ IsContentSegment(segments[j])
                       /\ \A k \in (j + 1)..(i - 1) : ~IsBoundary(segments[k])
        /\ Len(SelectSeq(segments, IsBoundary)) <= Len(MarkersIn(soup.children))

\* A paragraph, then two anchors in a row (an empty <a name=y> and the
\* heading after it) and the heading's text: two markers, one boundary
\* signal.
C14_Witness ==
    /\ pc = "done"
    /\ soup # NoNode
    /\ Stream(Body(soup).children, FALSE) = <<"c", "m", "m", "c">>
    /\ Len(SelectSeq(segments, IsBoundary)) = 1
    /\ text = <<"a">> \o CHAPTER_SEPARATOR \o <<"#", SP, "t">>

\* The entries of the table of contents that select_toc_chapter_anchors
\* is to keep: depth 1, an HTML-family path, a fragment.
Qualifying(entries) ==
    SelectSeq(entries, LAMBDA e : e.depth = 1 /\ IsHtmlPath(e.path) /\ e.fragment # "")

\* The place of the first entry of es with this path and fragment.
FirstAt(es, path, fragment) ==
    CHOOSE i \in 1..Len(es) :
        /\ normpath(es[i].path) = path /\ es[i].fragment = fragment
        /\ \A j \in 1..(i - 1) :
               ~(normpath(es[j].path) = path /\ es[j].fragment = fragment)

\* C15 as stated: every key of the anchor map is an HTML-family path of
\* the spine (of the books whose spine is not empty: the others are read
\* in the fallback order).
C15_KeysAreSpineFiles ==
    (pc \in {"open_out", "loop", "done"} /\ Healthy(archive)
         /\ SpineOf(archive) # <<>>) =>
        \A key \in DOMAIN chapter_anchors :
            /\ IsHtmlPath(key)
            /\ \E i \in 1..Len(SpineOf(archive)) : SpineOf(archive)[i] = key

\* C15, amended: the keys of the anchor map are the normalized paths of the
\* depth-1 entries of the table of contents with an HTML-family path and a
\* fragment, in the spine or not, and the list of a key is the fragments
\* of its entries, each once, in the order they first come.
C15_KeysAreHtmlPathsOfTopEntries ==
    (pc \in {"open_out", "loop", "done"} /\ Healthy(archive)) =>
        LET es == Qualifying(parse_toc_entries(archive.files, toc_path).entries)
        IN  /\ DOMAIN chapter_anchors = {normpath(es[i].path) : i \in 1..Len(es)}
            /\ \A key \in DOMAIN chapter_anchors :
                   LET list == chapter_anchors[key]
                   IN  /\ IsHtmlPath(key)
                       /\ {list[i] : i \in 1..Len(list)}
                              = {es[i].fragment :
                                     i \in {j \in 1..Len(es) : normpath(es[j].path) = key}}
                       /\ \A i, j \in 1..Len(list) :
                              i < j => FirstAt(es, key, list[i]) < FirstAt(es, key, list[j])

\* The spine is the chapter, and the table of contents has entries into
\* the chapter, into the navigation document itself and into an image: the
\* map has the first two as keys.
C15_Witness ==
    /\ pc = "done"
    /\ Healthy(archive)
    /\ SpineOf(archive) = <<InBook("a.xhtml")>>
    /\ DOMAIN chapter_anchors = {InBook("a.xhtml"), InBook("nav.xhtml")}
    /\ chapter_anchors[InBook("nav.xhtml")] = <<"x">>
    /\ chapter_anchors[InBook("a.xhtml")] = <<"y">>

\* The hyperlinks below the given nodes in document order, each with the
\* number d of lists it is nested in: the depth of the list item around it.
RECURSIVE LinkDepths(_, _)
LinkDepths(kids, d) ==
    IF kids = <<>> THEN <<>>
    ELSE LET n == Head(kids)
             here == IF n.name = "a" /\ n.ref # <<>>
                     THEN << [ref |-> n.ref, depth |-> d] >>
                     ELSE IF n.name \in {"ol", "ul"}
                     THEN LinkDepths(n.children, d + 1)
                     ELSE LinkDepths(n.children, d)
         IN  here \o LinkDepths(Tail(kids), d)

\* The navigation target of the archive is an HTML nav document in the
\* archive.
HasNavDocument(arch) ==
    /\ Healthy(arch)
    /\ parse_opf(arch.opf, arch.opf_at).toc_path \in DOMAIN arch.files
    /\ ~IsNcxPath(parse_opf(arch.opf, arch.opf_at).toc_path)

\* C16: the entries parse_nav_toc_entries records are the hyperlinks of the
\* nav list in document order, each with the depth of the list item around
\* it, and the fragments of the anchor map are those of links of depth 1.
C16_NavDepthIsItemDepth ==
    (pc \in {"open_out", "loop", "done"} /\ HasNavDocument(archive)) =>
        LET nav == FindTag(archive.files[toc_path].soup.children, {"nav"}, "", "")
            list_root == FindTag(nav.children, {"ol", "ul"}, "", "")
            links == IF nav = NoNode \/ list_root = NoNode THEN <<>>
                     ELSE LinkDepths(<<list_root>>, 0)
            entries == parse_toc_entries(archive.files, toc_path).entries
        IN  /\ Len(entries) = Len(links)
            /\ \A i \in 1..Len(links) :
                   /\ i \in 1..Len(entries)
                   /\ entries[i].depth = links[i].depth
                   /\ entries[i].path = split_toc_href(dirname(toc_path), links[i].ref).path
            /\ \A key \in DOMAIN chapter_anchors :
                   \A k \in 1..Len(chapter_anchors[key]) :
                       \E i \in 1..Len(links) :
                           /\ links[i].depth = 1
                           /\ split_toc_href(dirname(toc_path), links[i].ref)
                                  = [path |-> key, fragment |-> chapter_anchors[key][k]]

\* The lists of children of the tree below the given children, the given
\* list among them.
RECURSIVE SiblingLists(_)
SiblingLists(kids) ==
    {kids} \cup UNION {SiblingLists(kids[i].children) : i \in 1..Len(kids)}

\* The tree without its anchor markers.
RECURSIVE WithoutMarkers(_)
WithoutMarkers(kids) ==
    IF kids = <<>> THEN <<>>
    ELSE IF Head(kids).name = ANCHOR_MARKER_TAG THEN WithoutMarkers(Tail(kids))
    ELSE << [Head(kids) EXCEPT !.children = WithoutMarkers(@)] >>
         \o WithoutMarkers(Tail(kids))

\* The object an anchor is to mark in the document doc: the first element
\* with this id, else the first with this name, and the nearest heading
\* around that element if it is inside one; 0 when nothing matches.
FinalTarget(doc, anchor_id) ==
    LET by_id == FindIn(doc.children, "id", anchor_id)
        resolved == IF by_id # NoNode THEN by_id
                    ELSE FindIn(doc.children, "nm", anchor_id)
        around == SelectSeq(AncestorsOf(doc.children, resolved.oid),
                            LAMBDA n : n.name \in HEADING_NAMES)
    IN  IF resolved = NoNode THEN 0
        ELSE IF around # <<>> THEN around[Len(around)].oid
        ELSE resolved.oid

\* The file of the last turn of the loop, and the anchors the map has for it.
LastFile == ordered_files[file_idx - 1]
LastAnchors ==
    IF normpath(LastFile) \in DOMAIN chapter_anchors
    THEN chapter_anchors[normpath(LastFile)] ELSE <<>>

\* C17: the document handed to get_clean_text is the parsed one with one
\* marker for each distinct final target of its anchors and nothing else
\* changed: each target has one marker right before it, every marker
\* stands right before a target, and an anchor that matches nothing gives
\* no marker.
C17_OneMarkerBeforeEachTarget ==
    (pc \in {"loop", "done"} /\ file_idx > 1 /\ soup # NoNode) =>
        LET doc == archive.files[LastFile].soup
            targets == {FinalTarget(doc, LastAnchors[i]) : i \in 1..Len(LastAnchors)} \ {0}
            lists == SiblingLists(soup.children)
        IN  /\ Len(MarkersIn(soup.children)) = Cardinality(targets)
            /\ WithoutMarkers(soup.children) = Decompose(doc.children)
            /\ \A t \in targets :
                   \E kids \in lists : \E i \in 2..Len(kids) :
                       /\ kids[i].oid = t
                       /\ kids[i - 1].name = ANCHOR_MARKER_TAG
                       /\ i > 2 => kids[i - 2].name # ANCHOR_MARKER_TAG
            /\ \A kids \in lists : \A i \in 1..Len(kids) :
                   kids[i].name = ANCHOR_MARKER_TAG =>
                       i < Len(kids) /\ kids[i + 1].oid \in targets

\* A paragraph, a heading with id x around a span with id y, a paragraph
\* with id y, and the anchors x and y: y is found in the span, which is in
\* the heading x stands for, so there is one marker, right before the
\* heading.
C17_Witness ==
    /\ pc = "done"
    /\ soup # NoNode
    /\ LastAnchors = <<"x", "y">>
    /\ Len(Body(soup).children) = 4
    /\ Body(soup).children[1].name = "p"
    /\ Body(soup).children[2].name = ANCHOR_MARKER_TAG
    /\ Body(soup).children[3].name = "h1"
    /\ Body(soup).children[3].children[1].id = "y"
    /\ Body(soup).children[4].id = "y"
    /\ Len(MarkersIn(soup.children)) = 1

\* The rule of a chapter separator: the line between its empty lines.
SEPARATOR_RULE == <<"-", "-", "-">>

\* C18: in the output stream, between two chapter separators that follow
\* each other there is chapter content: of the lines between two rules one
\* at least is not blank.
C18_ContentBetweenSeparators ==
    (pc \in {"loop", "done"} /\ Healthy(archive)) =>
        LET lines == Lines(Join(written))
            rules == {i \in 1..Len(lines) : lines[i] = SEPARATOR_RULE}
        IN  \A i, j \in rules :
                (i < j /\ \A k \in rules : ~(i < k /\ k < j)) =>
                    \E k \in (i + 1)..(j - 1) : StripWS(lines[k]) # <<>>

\* C4: when the spine resolves to nothing, the reading order is the
\* HTML-family entries of the archive sorted by name, and no file is split
\* at anchors: no chapter text written holds a chapter separator.
C4_FallbackWithoutSplitting ==
    (pc = "done" /\ Healthy(archive) /\ SpineOf(archive) = <<>>)
    => /\ ordered_files = Sorted(SelectSeq(archive.names, IsHtmlPath))
       /\ \A i \in 1..Len(written) :
              written[i] = CHAPTER_SEPARATOR
              \/ ~Contains(written[i], CHAPTER_SEPARATOR)

\* The navigation target of the archive is absent, is not in the archive,
\* is an NCX that is not parsed or has no navMap, or is a nav document
\* without a nav element or without a list in it.
MalformedToc(arch) ==
    LET toc == parse_opf(arch.opf, arch.opf_at).toc_path
        nav == FindTag(arch.files[toc].soup.children, {"nav"}, "", "")
    IN  \/ toc = <<>>
        \/ toc \notin DOMAIN arch.files
        \/ /\ toc \in DOMAIN arch.files
           /\ IF IsNcxPath(toc)
              THEN \/ arch.files[toc].xml_result # "ok"
                   \/ FindTag(<<arch.files[toc].xml_root>>, {"navMap"}, "", "") = NoNode
              ELSE \/ nav = NoNode
                   \/ FindTag(nav.children, {"ol", "ul"}, "", "") = NoNode

\* C6: with a missing or malformed navigation document the conversion
\* never ends with an exception of the TOC parser, the anchor map is empty,
\* and every spine file is written as one chapter.
C6_TocNeverFatal ==
    (Healthy(archive) /\ MalformedToc(archive))
    => /\ outcome # "ValueError"
       /\ pc \in {"open_out", "loop", "done"} => chapter_anchors = <<>>
       /\ pc = "done" =>
              written = BlocksOf(archive, <<>>, ordered_files)
                        \o Ending(BlocksOf(archive, <<>>, ordered_files))

(***************************************************************************)
(* Claims about parse_opf (SpecOpf)                                        *)
(***************************************************************************)
\* parse_opf has returned: toc_path is its second result.
OpfParsed == pc \in {"order", "toc", "open_out", "loop", "done"}

\* The archive paths of the items of the manifest that satisfy want.
TargetsOf(arch, want(_)) ==
    LET its == SelectSeq(arch.opf.manifest, want)
    IN  [i \in 1..Len(its) |-> resolve_zip_path(dirname(arch.opf_at), its[i].href)]

Last(paths) == IF paths = <<>> THEN <<>> ELSE paths[Len(paths)]

\* C8 as stated: the navigation target is a manifest item whose properties
\* contain nav if there is one; otherwise the item the spine's toc attribute
\* names if that item is typed as NCX; otherwise an item typed as NCX;
\* otherwise none.
C8_NavTargetPriority ==
    OpfParsed =>
        LET navs == TargetsOf(archive, LAMBDA it : "nav" \in it.properties)
            by_toc == TargetsOf(archive,
                          LAMBDA it : /\ archive.opf.has_spine
                                      /\ archive.opf.toc # ""
                                      /\ it.id = archive.opf.toc
                                      /\ it.media_type = NCX_MEDIA_TYPE)
            ncxs == TargetsOf(archive, LAMBDA it : it.media_type = NCX_MEDIA_TYPE)
        IN  IF navs # <<>> THEN \E i \in 1..Len(navs) : toc_path = navs[i]
            ELSE IF by_toc # <<>> THEN \E i \in 1..Len(by_toc) : toc_path = by_toc[i]
            ELSE IF ncxs # <<>> THEN \E i \in 1..Len(ncxs) : toc_path = ncxs[i]
            ELSE toc_path = <<>>

\* C8, amended: among the manifest items that have an id and an href, the
\* navigation target is the last one whose properties contain nav; otherwise
\* the last one the spine's toc attribute names, whatever its media type;
\* otherwise the last one typed as NCX; otherwise none.
C8_NavTargetPriorityAnyTocItem ==
    OpfParsed =>
        LET usable(it) == it.id # "" /\ it.href # <<>>
            navs == TargetsOf(archive, LAMBDA it : usable(it) /\ "nav" \in it.properties)
            by_toc == TargetsOf(archive,
                          LAMBDA it : /\ usable(it)
                                      /\ archive.opf.has_spine
                                      /\ archive.opf.toc # ""
                                      /\ it.id = archive.opf.toc)
            ncxs == TargetsOf(archive,
                        LAMBDA it : usable(it) /\ it.media_type = NCX_MEDIA_TYPE)
        IN  toc_path = IF navs # <<>> THEN Last(navs)
                       ELSE IF by_toc # <<>> THEN Last(by_toc)
                       ELSE Last(ncxs)

\* A manifest of two NCX items and the chapter, and a spine whose toc
\* attribute names the first NCX: that one is the target, not the last.
C8_Witness ==
    /\ pc = "done"
    /\ archive.opf.has_spine
    /\ archive.opf.toc = "ncx"
    /\ Len(archive.opf.manifest) = 3
    /\ archive.opf.manifest[1] = NcxItem
    /\ archive.opf.manifest[2].id = "ncx2"
    /\ archive.opf.manifest[3] = ChapterItem
    /\ toc_path = InBook("toc.ncx")

=============================================================================
